---- MODULE Spec2Model ----
(***************************************************************************)
(* Verification model of neptune-core: the mining control loop             *)
(* (src/mine_loop.rs) with its cancellable nonce-search worker, and the    *)
(* wallet's block application (src/models/state/wallet/wallet_state.rs).   *)
(***************************************************************************)
EXTENDS Integers, Sequences, FiniteSets, TLC

(***************************************************************************)
(* Bounds of the exploration.                                              *)
(***************************************************************************)
\* number of worker tasks mine() may spawn in one run
MaxSpawns == 2
\* number of steps of the main loop besides its answers to NewBlockFound
MaxSends == 2
\* the system clock reads a value in 0..MaxTime (milliseconds)
MaxTime == 2
\* header digests are 0..MaxDigest
MaxDigest == 3
\* difficulties are 1..MaxDifficulty
MaxDifficulty == 2
\* the worker re-reads the syncing flag every SyncCheckPeriod iterations
\* (mine_loop.rs:144 uses 100; the period is scaled down for exploration)
SyncCheckPeriod == 2
\* number of membership proofs a monitored UTXO retains (number_of_mps_per_utxo)
NumberOfMpsPerUtxo == 3
\* a block's transaction has at most MaxOutputs outputs and MaxInputs inputs
MaxOutputs == 2
MaxInputs == 2
\* in the fork and funds scenarios a transaction has at most SmallTxSize
\* outputs and inputs
SmallTxSize == 1
\* funds are requested for amounts 0..MaxAmount
MaxAmount == 3
\* the wallet hands out at most MaxIssued output randomness values
MaxIssued == 3
\* the mutator set is given at most MaxMsItems items
MaxMsItems == 3
\* a transaction kernel's lists have at most MaxKernelLen elements, and its
\* field elements are 0..MaxFieldElement
MaxKernelLen == 1
MaxFieldElement == 1
\* number of blocks after genesis the wallet is given in one run
MaxBlocks == 3

\* the transactions in the mempool, the fee of one, and the first mining reward
MaxMempool == 2
MaxFee == 1
MaxReward == 4

\* the tasks that call State at a time, and the clones made of the first State
MaxTasks == 2
MaxClones == 1

\* the send sequences a screen spawns in one run, the characters of the amount
\* field, and the synced balance of the wallet behind the RPC server
MaxSequences == 2
MaxAmountLen == 1
SyncedBalance == 2

Digests == 0..MaxDigest
Times == 0..MaxTime

Min(a, b) == IF a < b THEN a ELSE b
Max(a, b) == IF a > b THEN a ELSE b

(***************************************************************************)
(* Blocks.  A block is its header; the header digest obtained with the     *)
(* current nonce is the field digest.                                      *)
(***************************************************************************)
\* BlockKernel::mast_hash: commits to every header field
MastHash(b) ==
    <<b.height, b.prev_block_digest, b.timestamp, b.difficulty,
      b.proof_of_work_line, b.proof_of_work_family, b.digest>>

\* Block::genesis_block
GenesisBlock ==
    [height |-> 0, prev_block_digest |-> <<>>, timestamp |-> 1,
     difficulty |-> 1, proof_of_work_line |-> 0, proof_of_work_family |-> 0,
     digest |-> 0]

\* a block a peer mined on genesis, announced by the main loop
PeerBlock ==
    [height |-> 1, prev_block_digest |-> MastHash(GenesisBlock), timestamp |-> 2,
     difficulty |-> 1, proof_of_work_line |-> 1, proof_of_work_family |-> 1,
     digest |-> 1]

PeerBlocks == {PeerBlock}

\* Block::difficulty_to_digest_threshold: the harder, the lower the threshold
difficulty_to_digest_threshold(d) == MaxDigest \div d

\* the block interval difficulty_control aims at
TargetBlockInterval == 2

\* Block::difficulty_control: deterministic, one step per block
difficulty_control(prev, ts) ==
    IF ts - prev.timestamp < TargetBlockInterval
        THEN Min(prev.difficulty + 1, MaxDifficulty)
    ELSE IF ts - prev.timestamp > TargetBlockInterval
        THEN Max(prev.difficulty - 1, 1)
    ELSE prev.difficulty

\* Block::has_proof_of_work (validation step 4)
has_proof_of_work(b, prev) ==
    b.digest <= difficulty_to_digest_threshold(b.difficulty)

\* Block::is_valid: the validation steps that read the header
is_valid(b, prev) ==
    /\ b.prev_block_digest = MastHash(prev)
    /\ b.height = prev.height + 1
    /\ b.timestamp > prev.timestamp
    /\ has_proof_of_work(b, prev)
    /\ b.difficulty = difficulty_control(prev, b.timestamp)
    /\ b.proof_of_work_line = prev.proof_of_work_line + prev.difficulty

\* make_block_template: the header built on previous_block when the clock
\* reads now; d0 is the digest of the header with the zero nonce
make_block_template(previous_block, now, d0) ==
    LET new_pow_line ==
            previous_block.proof_of_work_family + previous_block.difficulty
        block_timestamp ==
            IF now < previous_block.timestamp
                THEN previous_block.timestamp + 1
                ELSE now
    IN  [height |-> previous_block.height + 1,
         prev_block_digest |-> MastHash(previous_block),
         timestamp |-> block_timestamp,
         difficulty |-> difficulty_control(previous_block, block_timestamp),
         proof_of_work_line |-> new_pow_line,
         proof_of_work_family |-> new_pow_line,
         digest |-> d0]

(***************************************************************************)
(* Messages of the main loop (MainToMiner).                                *)
(***************************************************************************)
Msg(t) == [type |-> t]
NewBlockMsg(b) == [type |-> "NewBlock", block |-> b]
MainMessages ==
    {Msg("Empty"), Msg("Shutdown"), Msg("StopMining"), Msg("StartMining")}
        \cup {NewBlockMsg(b) : b \in PeerBlocks}

VARIABLES
    pc,                 \* position of mine(): top, build, select, barrier,
                        \* done (returned Ok), failed (returned Err), panicked
    latest_block,       \* mine()'s latest_block
    pause_mine,         \* mine()'s pause_mine
    watch_value,        \* value held by the watch channel from_main
    unseen,             \* the watch value has not been marked seen
    main_alive,         \* the main loop still holds its channel ends
    to_main,            \* blocks sent as NewBlockFound, not yet received
    syncing,            \* the node's net.syncing flag
    mining,             \* the flag written by set_mining
    unrestricted_mining,\* cli().unrestricted_mining
    worker,             \* the worker task of this loop iteration
    orphans,            \* worker tasks whose receiver was dropped
    spawned,            \* number of worker tasks spawned
    sends,              \* number of steps taken by the main loop
    wallet_db,          \* RustyWalletDatabase, as held in memory
    persisted,          \* RustyWalletDatabase, as last persisted
    wallet_result,      \* how the last call on the wallet ended
    blocks,             \* the blocks of the chain known so far, by hash
    applied,            \* hashes of the blocks given to the wallet, in order
    msa_state,          \* the last call's local accumulator: its steps, in order
    allocation,         \* the last call of allocate_sufficient_input_funds
    issued,             \* the sender randomness handed out for outputs, in order
    mset,               \* a mutator set accumulator, its items and their proofs
    call,               \* the last call of a function on blocks or kernels
    state,              \* State: what its clones share, its handles and the tasks that call it
    send_screen         \* SendScreen, its spawned sequences and the RPC server's wallet

minerVars ==
    <<pc, latest_block, pause_mine, watch_value, unseen, main_alive, to_main,
      syncing, mining, unrestricted_mining, worker, orphans, spawned, sends>>

walletVars ==
    <<wallet_db, persisted, wallet_result, blocks, applied, msa_state, allocation,
      issued>>

vars == <<minerVars, walletVars, mset, call, state, send_screen>>

NoAllocation == [result |-> "none"]

NoCall == [op |-> "none"]

\* MutatorSetAccumulator::default() and the empty lists of items and proofs;
\* the accumulator has its append-only commitment list and the bits set in
\* the sliding-window Bloom filter
NoBatch ==
    [accumulator |-> [aocl |-> <<>>, swbf |-> {}], removal_records |-> <<>>,
     dropped |-> {}]

NewMutatorSet ==
    [accumulator |-> [aocl |-> <<>>, swbf |-> {}], items |-> <<>>,
     membership_proofs |-> <<>>, membership_proofs_sequential |-> <<>>,
     removed |-> {}, batch |-> NoBatch]

\* a task that is in no call of State
IdleTask == [op |-> "none", arg |-> "none", locks |-> <<>>, result |-> <<>>]

\* the State main() builds: the header of the genesis block, empty databases,
\* both mutexes free, one handle, whose syncing flag is false
NewState ==
    [latest_block_header |-> [hash |-> "G", height |-> 0],
     databases |-> [block_height_to_hash |-> {}, block_hash_to_block |-> {},
                    latest_block_header |-> <<>>],
     databases_lock |-> 0,
     latest_block_header_lock |-> 0,
     tasks |-> [t \in 1..MaxTasks |-> IdleTask],
     syncing |-> <<FALSE>>,
     handles |-> <<1>>]

\* no address or amount has come back from the RPC server
NoValue == <<>>

\* SendScreen::new, and the wallet of the node the screen talks to
NewSendScreen ==
    [in_focus |-> FALSE, address |-> "", amount |-> <<>>, focus |-> "Address",
     notice |-> "", reset_me |-> FALSE, input_requested |-> FALSE,
     sequences |-> <<>>,
     balance |-> SyncedBalance, sent |-> <<>>]

\* the wallet, where it takes no part
NewWalletDb ==
    [monitored_utxos |-> <<>>, sync_label |-> "default", counter |-> 0,
     balance_updates |-> <<>>]

WalletIdle ==
    /\ wallet_db = NewWalletDb
    /\ persisted = NewWalletDb
    /\ wallet_result = "none"
    /\ blocks = <<>>
    /\ applied = <<>>
    /\ msa_state = <<>>
    /\ allocation = NoAllocation
    /\ issued = <<>>
    /\ mset = NewMutatorSet
    /\ call = NoCall
    /\ state = NewState
    /\ send_screen = NewSendScreen

NoWorker == [status |-> "none"]

\* how a task that ended did end: cancelled, syncing, send_failed, aborted
Ended(how) == [status |-> "returned", exit |-> how]

\* the task mine_block spawned on a template
NewWorker(header, difficulty) ==
    [status |-> "running", wpc |-> "loop", header |-> header,
     difficulty |-> difficulty, counter |-> 0, abort |-> FALSE,
     after_drop |-> 0]

(***************************************************************************)
(* mine_block: one step of the worker task w; rx tells whether the         *)
(* receiver of its oneshot channel is still alive.  The result is the set  *)
(* of the states the task can be in after the step.                        *)
(***************************************************************************)
\* the task is at an await, where an abort takes effect: in the sleep of an
\* iteration (line 128, unless the node mines unrestricted) and where it
\* locks the state to read the syncing flag (line 144)
AtAwait(w) ==
    \/ /\ w.wpc = "loop"
       /\ ~unrestricted_mining
       /\ w.header.digest >= difficulty_to_digest_threshold(w.difficulty)
    \/ w.wpc = "sync" /\ w.counter % SyncCheckPeriod = 0

\* mine_block_loop without the check of the sender
mine_block_loop_NoCancelCheck(w, rx) ==
    IF w.header.digest >= difficulty_to_digest_threshold(w.difficulty)
        THEN {[w EXCEPT !.wpc = "sync"]}
        ELSE {[w EXCEPT !.wpc = "send"]}

\* lines 126-141: the loop condition and the check of the sender
mine_block_loop(w, rx) ==
    IF w.header.digest >= difficulty_to_digest_threshold(w.difficulty)
        THEN IF ~rx
                THEN {Ended("cancelled")}
                ELSE {[w EXCEPT !.wpc = "sync"]}
        ELSE {[w EXCEPT !.wpc = "send"]}

\* lines 143-150: the check of the syncing flag and the next nonce
mine_block_sync(w, rx) ==
    IF w.counter % SyncCheckPeriod = 0 /\ syncing
        THEN {Ended("syncing")}
        ELSE {[w EXCEPT !.wpc = "loop",
                        !.counter = (w.counter + 1) % SyncCheckPeriod,
                        !.header.digest = d,
                        !.after_drop = IF rx THEN 0 ELSE w.after_drop + 1]
                : d \in Digests}

\* lines 157-169: the block is sent, unless the receiver is gone
mine_block_send(w, rx) ==
    IF rx
        THEN {[status |-> "sent", header |-> w.header]}
        ELSE {Ended("send_failed")}

mine_block(w, rx) ==
    CASE w.wpc = "loop" -> mine_block_loop(w, rx)
      [] w.wpc = "sync" -> mine_block_sync(w, rx)
      [] w.wpc = "send" -> mine_block_send(w, rx)

(***************************************************************************)
(* The worker tasks.                                                       *)
(***************************************************************************)
\* the worker of the current iteration runs; its receiver is alive
WorkerRun ==
    /\ worker.status = "running"
    /\ worker' \in mine_block(worker, TRUE)
    /\ UNCHANGED <<pc, latest_block, pause_mine, watch_value, unseen,
                   main_alive, to_main, syncing, mining, unrestricted_mining,
                   orphans, spawned, sends>>
    /\ UNCHANGED <<walletVars, mset, call, state, send_screen>>

\* a worker whose receiver was dropped runs
OrphanRun ==
    /\ \E o \in orphans :
        /\ o.status = "running"
        /\ \E o2 \in mine_block(o, FALSE) :
            orphans' = (orphans \ {o}) \cup {o2}
    /\ UNCHANGED <<pc, latest_block, pause_mine, watch_value, unseen,
                   main_alive, to_main, syncing, mining, unrestricted_mining,
                   worker, spawned, sends>>
    /\ UNCHANGED <<walletVars, mset, call, state, send_screen>>

\* JoinHandle::abort takes effect at the task's next await
OrphanAborted ==
    /\ \E o \in orphans :
        /\ o.status = "running"
        /\ o.abort
        /\ AtAwait(o)
        /\ orphans' = (orphans \ {o}) \cup {Ended("aborted")}
    /\ UNCHANGED <<pc, latest_block, pause_mine, watch_value, unseen,
                   main_alive, to_main, syncing, mining, unrestricted_mining,
                   worker, spawned, sends>>
    /\ UNCHANGED <<walletVars, mset, call, state, send_screen>>

(***************************************************************************)
(* mine(): lines 318-446.                                                  *)
(***************************************************************************)
\* MinerLoopHead without the read of the syncing flag
MinerLoopHead_IgnoresSyncing ==
    /\ pc = "top"
    /\ IF pause_mine
        THEN /\ mining' = FALSE
             /\ pc' = "select"
        ELSE /\ mining' = mining
             /\ pc' = "build"
    /\ worker' = NoWorker
    /\ UNCHANGED <<latest_block, pause_mine, watch_value, unseen, main_alive,
                   to_main, syncing, unrestricted_mining, orphans, spawned,
                   sends>>
    /\ UNCHANGED <<walletVars, mset, call, state, send_screen>>

\* lines 320-329: the head of the loop reads the syncing flag
MinerLoopHead ==
    /\ pc = "top"
    /\ IF syncing \/ pause_mine
        THEN /\ mining' = FALSE
             /\ pc' = "select"
        ELSE /\ mining' = mining
             /\ pc' = "build"
    /\ worker' = NoWorker
    /\ UNCHANGED <<latest_block, pause_mine, watch_value, unseen, main_alive,
                   to_main, syncing, unrestricted_mining, orphans, spawned,
                   sends>>
    /\ UNCHANGED <<walletVars, mset, call, state, send_screen>>

\* lines 331-350: build the template and spawn the worker on it
MinerBuild ==
    /\ pc = "build"
    /\ spawned < MaxSpawns
    /\ \E now \in Times, d0 \in Digests :
        worker' = NewWorker(make_block_template(latest_block, now, d0),
                            latest_block.difficulty)
    /\ mining' = TRUE
    /\ spawned' = spawned + 1
    /\ pc' = "select"
    /\ UNCHANGED <<latest_block, pause_mine, watch_value, unseen, main_alive,
                   to_main, syncing, unrestricted_mining, orphans, sends>>
    /\ UNCHANGED <<walletVars, mset, call, state, send_screen>>

\* the handlers of lines 363-391 that call miner_thread.abort()
AbortsWorker(m) == m \in {"Shutdown", "NewBlock", "StopMining"}

\* the select ends with the branch of the main loop: worker_thread_rx is
\* dropped, and the task goes on until it notices
Detach(w, aborted) ==
    IF w.status = "running"
        THEN [w EXCEPT !.abort = aborted,
                       !.header = [digest |-> w.header.digest]]
        ELSE NoWorker

\* lines 355-398: a message of the main loop.  With track the task that
\* lost its receiver is followed among the orphans; without, only the call
\* of abort is kept, until the next iteration
RecvMain(track) ==
    /\ pc = "select"
    /\ unseen
    /\ unseen' = FALSE
    /\ LET m == watch_value.type
           task == Detach(worker, AbortsWorker(m))
       IN
        /\ pc' = IF m = "Shutdown" THEN "done" ELSE "top"
        /\ latest_block' = IF m = "NewBlock" THEN watch_value.block
                           ELSE latest_block
        /\ pause_mine' = IF m = "StopMining" THEN TRUE
                         ELSE IF m = "StartMining" THEN FALSE
                         ELSE pause_mine
        /\ IF track
            THEN /\ orphans' = orphans \cup ({task} \ {NoWorker})
                 /\ worker' = NoWorker
            ELSE /\ orphans' = orphans
                 /\ worker' = IF task = NoWorker THEN NoWorker
                              ELSE [status |-> "detached", abort |-> task.abort]
    /\ UNCHANGED <<watch_value, main_alive, to_main, syncing, mining,
                   unrestricted_mining, spawned, sends>>
    /\ UNCHANGED <<walletVars, mset, call, state, send_screen>>

MinerRecvMain == RecvMain(FALSE)

MinerRecvMainTracked == RecvMain(TRUE)

\* lines 357-359: the watch channel is closed
MinerRecvClosed ==
    /\ pc = "select"
    /\ ~unseen
    /\ ~main_alive
    /\ pc' = "failed"
    /\ worker' = NoWorker
    /\ UNCHANGED <<latest_block, pause_mine, watch_value, unseen, main_alive,
                   to_main, syncing, mining, unrestricted_mining, orphans,
                   spawned, sends>>
    /\ UNCHANGED <<walletVars, mset, call, state, send_screen>>

\* lines 400-406: the worker ended without sending
MinerWorkerGone ==
    /\ pc = "select"
    /\ worker.status = "returned"
    /\ pc' = "top"
    /\ worker' = NoWorker
    /\ UNCHANGED <<latest_block, pause_mine, watch_value, unseen, main_alive,
                   to_main, syncing, mining, unrestricted_mining, orphans,
                   spawned, sends>>
    /\ UNCHANGED <<walletVars, mset, call, state, send_screen>>

\* lines 408-424: the worker sent a block.  A failed proof-of-work check is
\* logged (413-415) and the handler goes on to the assertion of line 419
FoundHandler(block) ==
    IF ~is_valid(block, latest_block)
        THEN /\ pc' = "panicked"
             /\ UNCHANGED <<latest_block, to_main>>
        ELSE /\ latest_block' = block
             /\ IF main_alive
                  THEN /\ to_main' = Append(to_main, block)
                       /\ pc' = "barrier"
                  ELSE /\ to_main' = to_main
                       /\ pc' = "failed"

MinerRecvWorker ==
    /\ pc = "select"
    /\ worker.status = "sent"
    /\ FoundHandler(worker.header)
    /\ worker' = NoWorker
    /\ UNCHANGED <<pause_mine, watch_value, unseen, main_alive, syncing,
                   mining, unrestricted_mining, orphans, spawned, sends>>
    /\ UNCHANGED <<walletVars, mset, call, state, send_screen>>

\* lines 426-440: wait for the main loop after NewBlockFound; changed()
\* marks the value seen, whatever the message is
MinerBarrier ==
    /\ pc = "barrier"
    /\ unseen \/ ~main_alive
    /\ unseen' = FALSE
    /\ pc' = "top"
    /\ UNCHANGED <<latest_block, pause_mine, watch_value, main_alive, to_main,
                   syncing, mining, unrestricted_mining, worker, orphans,
                   spawned, sends>>
    /\ UNCHANGED <<walletVars, mset, call, state, send_screen>>

(***************************************************************************)
(* The main loop and the rest of the node, as mine() sees them.            *)
(***************************************************************************)
MainSend ==
    /\ main_alive
    /\ sends < MaxSends
    /\ \E m \in MainMessages : watch_value' = m
    /\ unseen' = TRUE
    /\ sends' = sends + 1
    /\ UNCHANGED <<pc, latest_block, pause_mine, main_alive, to_main, syncing,
                   mining, unrestricted_mining, worker, orphans, spawned>>
    /\ UNCHANGED <<walletVars, mset, call, state, send_screen>>

\* the main loop receives NewBlockFound, updates the state and answers
MainHandleFound ==
    /\ main_alive
    /\ to_main # <<>>
    /\ to_main' = Tail(to_main)
    /\ watch_value' = Msg("ReadyToMineNextBlock")
    /\ unseen' = TRUE
    /\ UNCHANGED <<pc, latest_block, pause_mine, main_alive, syncing, mining,
                   unrestricted_mining, worker, orphans, spawned, sends>>
    /\ UNCHANGED <<walletVars, mset, call, state, send_screen>>

\* the main loop ends after Shutdown and drops its channel ends
MainExit ==
    /\ main_alive
    /\ watch_value = Msg("Shutdown")
    /\ main_alive' = FALSE
    /\ to_main' = <<>>
    /\ UNCHANGED <<pc, latest_block, pause_mine, watch_value, unseen, syncing,
                   mining, unrestricted_mining, worker, orphans, spawned,
                   sends>>
    /\ UNCHANGED <<walletVars, mset, call, state, send_screen>>

\* the node starts or ends a synchronisation
SetSyncing ==
    /\ main_alive
    /\ sends < MaxSends
    /\ syncing' = ~syncing
    /\ sends' = sends + 1
    /\ UNCHANGED <<pc, latest_block, pause_mine, watch_value, unseen,
                   main_alive, to_main, mining, unrestricted_mining, worker,
                   orphans, spawned>>
    /\ UNCHANGED <<walletVars, mset, call, state, send_screen>>

Init ==
    /\ WalletIdle
    /\ pc = "top"
    /\ latest_block = GenesisBlock
    /\ pause_mine = FALSE
    /\ watch_value = Msg("Empty")
    /\ unseen = FALSE
    /\ main_alive = TRUE
    /\ to_main = <<>>
    /\ syncing = FALSE
    /\ mining = FALSE
    /\ unrestricted_mining = FALSE
    /\ worker = NoWorker
    /\ orphans = {}
    /\ spawned = 0
    /\ sends = 0

Next ==
    \/ MinerLoopHead
    \/ MinerBuild
    \/ MinerRecvMain
    \/ MinerRecvClosed
    \/ MinerWorkerGone
    \/ MinerRecvWorker
    \/ MinerBarrier
    \/ WorkerRun
    \/ MainSend
    \/ MainHandleFound
    \/ MainExit
    \/ SetSyncing

Spec == Init /\ [][Next]_vars

(***************************************************************************)
(* mine() started on any tip: the genesis block, a block of a peer, or a   *)
(* block with an uncle, whose proof_of_work_family exceeds its             *)
(* proof_of_work_line.                                                     *)
(***************************************************************************)
UncleBlock ==
    [PeerBlock EXCEPT !.proof_of_work_family = PeerBlock.proof_of_work_line + 1]

ParentBlocks == {GenesisBlock, PeerBlock, UncleBlock}

InitParents ==
    /\ WalletIdle
    /\ pc = "top"
    /\ latest_block \in ParentBlocks
    /\ pause_mine = FALSE
    /\ watch_value = Msg("Empty")
    /\ unseen = FALSE
    /\ main_alive = TRUE
    /\ to_main = <<>>
    /\ syncing = FALSE
    /\ mining = FALSE
    /\ unrestricted_mining = FALSE
    /\ worker = NoWorker
    /\ orphans = {}
    /\ spawned = 0
    /\ sends = 0

SpecParents == InitParents /\ [][Next]_vars

(***************************************************************************)
(* Block (models/blockchain/block/mod.rs): a header and a body with the    *)
(* header's hash cached, its wire form TransferBlock, and is_valid.        *)
(***************************************************************************)
\* BlockHeader::hash
header_hash(header) == MastHash(header)

\* the digest as a number, as OrderedDigest compares it
OrderedDigest(hash) == hash[Len(hash)]

MOCK_BLOCK_THRESHOLD == MaxDigest - 1

\* the hash is the default digest
Block_new_Unsealed(header, body) ==
    [body |-> body, header |-> header, hash |-> <<>>]

Block_new(header, body) ==
    [body |-> body, header |-> header, hash |-> header_hash(header)]

Block_genesis_block == Block_new(GenesisBlock, <<>>)

From_Block(block) == [header |-> block.header, body |-> block.body]

From_TransferBlock(t_block) ==
    [hash |-> header_hash(t_block.header), header |-> t_block.header,
     body |-> t_block.body]

devnet_is_valid(block) == TRUE

\* Block::is_valid takes the block only
Block_is_valid(block) ==
    IF OrderedDigest(block.hash) > MOCK_BLOCK_THRESHOLD THEN FALSE
    ELSE IF ~devnet_is_valid(block) THEN FALSE
    ELSE TRUE

\* headers and bodies of the blocks a node may be handed
CandidateHeaders ==
    [height : 0..(PeerBlock.height + 1),
     prev_block_digest : {MastHash(GenesisBlock), MastHash(PeerBlock)},
     timestamp : {PeerBlock.timestamp}, difficulty : {PeerBlock.difficulty},
     proof_of_work_line : {PeerBlock.proof_of_work_line},
     proof_of_work_family : {PeerBlock.proof_of_work_family},
     digest : Digests]

CandidateBodies == {<<>>, <<"transaction">>}

HoldsBlock == call.op \in {"new", "genesis_block", "from"}

CallBlockNew ==
    /\ \E header \in CandidateHeaders, body \in CandidateBodies :
          call' = [op |-> "new", block |-> Block_new(header, body)]
    /\ UNCHANGED <<minerVars, walletVars, mset, state, send_screen>>

CallGenesisBlock ==
    /\ call' = [op |-> "genesis_block", block |-> Block_genesis_block]
    /\ UNCHANGED <<minerVars, walletVars, mset, state, send_screen>>

\* a block arrives in its wire form
CallFromTransferBlock ==
    /\ \E header \in CandidateHeaders, body \in CandidateBodies :
          call' = [op |-> "from",
                   block |-> From_TransferBlock([header |-> header, body |-> body])]
    /\ UNCHANGED <<minerVars, walletVars, mset, state, send_screen>>

\* a block is sent in its wire form and received again
CallRoundTrip ==
    /\ HoldsBlock
    /\ call' = [op |-> "round_trip", original |-> call.block,
                block |-> From_TransferBlock(From_Block(call.block))]
    /\ UNCHANGED <<minerVars, walletVars, mset, state, send_screen>>

\* a block is validated by a node that holds parent as its predecessor
CallIsValid ==
    /\ HoldsBlock
    /\ \E p \in ParentBlocks :
          LET parent == Block_new(p, <<>>) IN
          call' = [op |-> "is_valid", block |-> call.block, parent |-> parent,
                   result |-> Block_is_valid(call.block)]
    /\ UNCHANGED <<minerVars, walletVars, mset, state, send_screen>>

NextBlock ==
    \/ CallBlockNew
    \/ CallGenesisBlock
    \/ CallFromTransferBlock
    \/ CallRoundTrip
    \/ CallIsValid

SpecBlock == Init /\ [][NextBlock]_vars

(***************************************************************************)
(* One worker task, followed after its receiver is dropped: mine() has     *)
(* spawned it on a template and waits in the select.                       *)
(***************************************************************************)
InitWorker ==
    /\ WalletIdle
    /\ pc = "select"
    /\ latest_block \in {GenesisBlock} \cup PeerBlocks
    /\ pause_mine = FALSE
    /\ watch_value = Msg("Empty")
    /\ unseen = FALSE
    /\ main_alive = TRUE
    /\ to_main = <<>>
    /\ syncing = FALSE
    /\ mining = TRUE
    /\ unrestricted_mining \in BOOLEAN
    /\ \E now \in Times, d0 \in Digests :
        worker = NewWorker(make_block_template(latest_block, now, d0),
                           latest_block.difficulty)
    /\ orphans = {}
    /\ spawned = 1
    /\ sends = 0

NextWorker ==
    \/ WorkerRun
    \/ OrphanRun
    \/ OrphanAborted
    \/ MinerRecvMainTracked
    \/ MinerWorkerGone
    \/ MainSend
    \/ SetSyncing

SpecWorker == InitWorker /\ [][NextWorker]_vars

(***************************************************************************)
(* Steps of mine(), told from the variables.                               *)
(***************************************************************************)
\* mine() marks the message m of the main loop seen

(***************************************************************************)
(* The wallet: update_wallet_state_with_new_block over a tree of blocks.   *)
(***************************************************************************)

\* hashes of the blocks of the fork scenario: G <- A <- B <- C and A <- Bp <- Cp <- Dp
BlockNames == {"A", "B", "C", "Bp", "Cp", "Dp"}

Parent(n) ==
    CASE n = "A" -> "G"
      [] n = "B" -> "A"
      [] n = "C" -> "B"
      [] n = "Bp" -> "A"
      [] n = "Cp" -> "Bp"
      [] n = "Dp" -> "Cp"

None == "None"

Utxos == {[amount |-> 1, pubkey |-> k] : k \in {"me", "other"}}

matches_pubkey(utxo) == utxo.pubkey = "me"

SeqsUpTo(S, n) == UNION {[1..k -> S] : k \in 0..n}

RangeOf(s) == {s[i] : i \in DOMAIN s}

\* the mutator set accumulator: the append-only commitment list and the bits
\* set in the sliding-window Bloom filter
EmptyMsa == [aocl |-> <<>>, swbf |-> {}]

commit(item, randomness) == <<item, randomness>>

get_indices(item, randomness, leaf_index) == <<item, randomness, leaf_index>>

msa_prove(msa, item, randomness) ==
    [randomness |-> randomness,
     leaf_index |-> Len(msa.aocl),
     aocl_len |-> Len(msa.aocl) + 1,
     cached_indices |-> get_indices(item, randomness, Len(msa.aocl))]

msa_verify(msa, item, mp) ==
    /\ mp.leaf_index < Len(msa.aocl)
    /\ msa.aocl[mp.leaf_index + 1] = commit(item, mp.randomness)
    /\ mp.aocl_len = Len(msa.aocl)
    /\ get_indices(item, mp.randomness, mp.leaf_index) \notin msa.swbf

msa_add(msa, addition_record) == [msa EXCEPT !.aocl = Append(@, addition_record)]

msa_remove(msa, removal_record) ==
    [msa EXCEPT !.swbf = @ \cup {removal_record.absolute_indices}]

msa_hash(msa) == msa

\* MsMembershipProof::batch_update_from_addition: every proof's path grows to
\* the list with the new leaf; StaleProof when a leaf index is beyond the list
batch_update_from_addition_fails(mps, msa) ==
    \E e \in mps : e.mp.leaf_index >= Len(msa.aocl)

\* the proofs are left as they are
batch_update_from_addition_Stale(mps, msa) == mps

batch_update_from_addition(mps, msa) ==
    {[e EXCEPT !.mp.aocl_len = Len(msa.aocl) + 1] : e \in mps}

batch_update_from_remove(mps, removal_record) == mps

\* MonitoredUtxo
NewMonitoredUtxo(utxo) ==
    [utxo |-> utxo, blockhash_to_membership_proof |-> <<>>,
     confirmed_in_block |-> None, spent_in_block |-> None]

EntriesFor(mutxo, digest) ==
    {i \in DOMAIN mutxo.blockhash_to_membership_proof :
        mutxo.blockhash_to_membership_proof[i].digest = digest}

is_synced_to(mutxo, digest) == EntriesFor(mutxo, digest) # {}

get_membership_proof_for_block(mutxo, digest) ==
    mutxo.blockhash_to_membership_proof[CHOOSE i \in EntriesFor(mutxo, digest) : TRUE].mp

get_latest_membership_proof_entry(mutxo) ==
    mutxo.blockhash_to_membership_proof[Len(mutxo.blockhash_to_membership_proof)]

RECURSIVE DropOldest(_)
DropOldest(entries) ==
    IF Len(entries) >= NumberOfMpsPerUtxo THEN DropOldest(Tail(entries)) ELSE entries

add_membership_proof_for_tip(mutxo, digest, mp) ==
    [mutxo EXCEPT !.blockhash_to_membership_proof =
        Append(DropOldest(@), [digest |-> digest, mp |-> mp])]

\* a block, as the wallet reads it
additions(block) ==
    [k \in DOMAIN block.outputs |-> commit(block.outputs[k].utxo, block.outputs[k].randomness)]

get_own_input_utxos(block) ==
    SelectSeq([k \in DOMAIN block.inputs |-> block.inputs[k].utxo], matches_pubkey)

OwnOutput(o) == matches_pubkey(o.utxo)

get_own_output_utxos_and_comrands(block) == SelectSeq(block.outputs, OwnOutput)

RECURSIVE ApplyBody(_, _, _)
ApplyBody(msa, outputs, inputs) ==
    IF outputs # <<>>
    THEN ApplyBody(msa_add(msa, commit(Head(outputs).utxo, Head(outputs).randomness)),
                   Tail(outputs), inputs)
    ELSE IF inputs # <<>>
    THEN ApplyBody(msa_remove(msa, Head(inputs).removal_record), outputs, Tail(inputs))
    ELSE msa

MakeBlock(hash, prev, previous_msa, outputs, inputs) ==
    [hash |-> hash, prev_block_digest |-> prev, outputs |-> outputs, inputs |-> inputs,
     previous_mutator_set_accumulator |-> previous_msa,
     next_mutator_set_accumulator |-> ApplyBody(previous_msa, outputs, inputs)]

genesis_block == MakeBlock("G", "default", EmptyMsa, <<>>, <<>>)

BalanceUpdate(block, utxo, sign) ==
    [block |-> block.hash, amount |-> utxo.amount, sign |-> sign]

PushBalanceUpdates(db, block) ==
    LET own_in == get_own_input_utxos(block)
        own_out == get_own_output_utxos_and_comrands(block)
    IN  [db EXCEPT !.balance_updates =
            @ \o [k \in DOMAIN own_in |-> BalanceUpdate(block, own_in[k], "NonNegative")]
              \o [k \in DOMAIN own_out |-> BalanceUpdate(block, own_out[k].utxo, "Negative")]]

StrongUtxoKey(utxo_digest, aocl_index) == <<utxo_digest, aocl_index>>

SyncedTo(mutxos, digest) == {i \in DOMAIN mutxos : is_synced_to(mutxos[i], digest)}

KeyOf(mutxos, i, digest) ==
    StrongUtxoKey(mutxos[i].utxo, get_membership_proof_for_block(mutxos[i], digest).leaf_index)

\* the proofs valid at the previous tip, by strong key, with the index of their UTXO
valid_membership_proofs(mutxos, digest) ==
    {[key |-> KeyOf(mutxos, i, digest),
      mp |-> get_membership_proof_for_block(mutxos[i], digest),
      idx |-> i] : i \in SyncedTo(mutxos, digest)}

StrongKeyClash(mutxos, digest) ==
    \E i, j \in SyncedTo(mutxos, digest) :
        i # j /\ KeyOf(mutxos, i, digest) = KeyOf(mutxos, j, digest)

\* a step of the local accumulator msa_state: what was applied, and the result
MsaStep(op, record, msa) == [op |-> op, record |-> record, msa |-> msa]

\* a monitored UTXO without the block it was confirmed in
NewOwnMutxo_Unconfirmed(utxo, block) == NewMonitoredUtxo(utxo)

\* lines 272-276: the monitored UTXO of an own output of the block
NewOwnMutxo(utxo, block) ==
    [NewMonitoredUtxo(utxo) EXCEPT !.confirmed_in_block = block.hash]

\* the loop over the additions, from the k-th on
RECURSIVE ApplyAdditions(_, _, _)
ApplyAdditions(block, k, st) ==
    IF k > Len(block.outputs) \/ st.result # "ok" THEN st
    ELSE IF batch_update_from_addition_fails(st.mps, st.msa)
    THEN [st EXCEPT !.result = "err"]
    ELSE
        LET out == block.outputs[k]
            mps1 == batch_update_from_addition(st.mps, st.msa)
            new_mp == msa_prove(st.msa, out.utxo, out.randomness)
            key == StrongUtxoKey(out.utxo, new_mp.leaf_index)
            mine == matches_pubkey(out.utxo)
        IN  ApplyAdditions(block, k + 1,
                [msa |-> msa_add(st.msa, additions(block)[k]),
                 steps |-> Append(st.steps,
                              MsaStep("add", additions(block)[k],
                                      msa_add(st.msa, additions(block)[k]))),
                 mps |-> IF mine
                         THEN {e \in mps1 : e.key # key}
                              \cup {[key |-> key, mp |-> new_mp, idx |-> Len(st.mutxos) + 1]}
                         ELSE mps1,
                 mutxos |-> IF mine
                            THEN Append(st.mutxos, NewOwnMutxo(out.utxo, block))
                            ELSE st.mutxos,
                 result |-> "ok"])

\* the sanity check after the additions
MutxoCountMatches(mutxos, mps, digest) ==
    Cardinality({i \in DOMAIN mutxos :
                    \/ is_synced_to(mutxos[i], digest)
                    \/ mutxos[i].blockhash_to_membership_proof = <<>>})
        = Cardinality(mps)

RECURSIVE SortedSeq(_)
SortedSeq(S) ==
    IF S = {} THEN <<>>
    ELSE LET m == CHOOSE x \in S : \A y \in S : x <= y
         IN  <<m>> \o SortedSeq(S \ {m})

\* several monitored UTXOs have the input's hash: the first one whose latest
\* proof caches the removal record's indices is marked
RECURSIVE MarkSpentAmong(_, _, _, _)
MarkSpentAmong(mutxos, matching, removal_record, hash) ==
    IF matching = <<>> THEN [mutxos |-> mutxos, result |-> "ok"]
    ELSE LET j == Head(matching) IN
         IF mutxos[j].blockhash_to_membership_proof = <<>>
         THEN [mutxos |-> mutxos, result |-> "panicked"]
         ELSE IF get_latest_membership_proof_entry(mutxos[j]).mp.cached_indices
                    = removal_record.absolute_indices
         THEN [mutxos |-> [mutxos EXCEPT ![j].spent_in_block = hash], result |-> "ok"]
         ELSE MarkSpentAmong(mutxos, Tail(matching), removal_record, hash)

\* every monitored UTXO with the input's hash is marked
MarkSpent_AllMatching(mutxos, input, hash) ==
    [mutxos |-> [j \in DOMAIN mutxos |->
                    IF mutxos[j].utxo = input.utxo
                    THEN [mutxos[j] EXCEPT !.spent_in_block = hash]
                    ELSE mutxos[j]],
     result |-> IF \E j \in DOMAIN mutxos : mutxos[j].utxo = input.utxo
                THEN "ok" ELSE "panicked"]

MarkSpent(mutxos, input, hash) ==
    LET matching == SortedSeq({j \in DOMAIN mutxos : mutxos[j].utxo = input.utxo})
    IN  IF Len(matching) = 0 THEN [mutxos |-> mutxos, result |-> "panicked"]
        ELSE IF Len(matching) = 1
        THEN [mutxos |-> [mutxos EXCEPT ![matching[1]].spent_in_block = hash],
              result |-> "ok"]
        ELSE MarkSpentAmong(mutxos, matching, input.removal_record, hash)

\* the loop over the removals, taking the records from the last to the first
RECURSIVE ApplyRemovals_Backwards(_, _, _)
ApplyRemovals_Backwards(block, k, st) ==
    IF k > Len(block.inputs) \/ st.result # "ok" THEN st
    ELSE
        LET input == block.inputs[Len(block.inputs) + 1 - k]
            marked == IF matches_pubkey(input.utxo)
                      THEN MarkSpent(st.mutxos, input, block.hash)
                      ELSE [mutxos |-> st.mutxos, result |-> "ok"]
        IN  ApplyRemovals_Backwards(block, k + 1,
                [msa |-> msa_remove(st.msa, input.removal_record),
                 steps |-> Append(st.steps,
                              MsaStep("remove", input.removal_record,
                                      msa_remove(st.msa, input.removal_record))),
                 mps |-> batch_update_from_remove(st.mps, input.removal_record),
                 mutxos |-> marked.mutxos,
                 result |-> marked.result])

\* the loop over the removals, from the k-th on
RECURSIVE ApplyRemovals(_, _, _)
ApplyRemovals(block, k, st) ==
    IF k > Len(block.inputs) \/ st.result # "ok" THEN st
    ELSE
        LET input == block.inputs[k]
            mps1 == batch_update_from_remove(st.mps, input.removal_record)
            marked == IF matches_pubkey(input.utxo)
                      THEN MarkSpent(st.mutxos, input, block.hash)
                      ELSE [mutxos |-> st.mutxos, result |-> "ok"]
        IN  ApplyRemovals(block, k + 1,
                [msa |-> msa_remove(st.msa, input.removal_record),
                 steps |-> Append(st.steps,
                              MsaStep("remove", input.removal_record,
                                      msa_remove(st.msa, input.removal_record))),
                 mps |-> mps1,
                 mutxos |-> marked.mutxos,
                 result |-> marked.result])

\* the advanced proofs are dropped
StoreProofs_Skip(mutxos, mps, hash) == mutxos

\* the advanced proofs are stored under the block's hash
StoreProofs(mutxos, mps, hash) ==
    [i \in DOMAIN mutxos |->
        IF \E e \in mps : e.idx = i
        THEN add_membership_proof_for_tip(mutxos[i], hash,
                (CHOOSE e \in mps : e.idx = i).mp)
        ELSE mutxos[i]]

ProofsStillValid(mutxos, mps, msa) ==
    \A e \in mps :
        \/ mutxos[e.idx].spent_in_block # None
        \/ msa_verify(msa, e.key[1], e.mp)

Outcome(db, result, persist) ==
    [db |-> db, result |-> result, persist |-> persist, steps |-> <<>>]

WithSteps(outcome, st) == [outcome EXCEPT !.steps = st.steps]

update_wallet_state_with_new_block(db, block) ==
    IF /\ get_own_input_utxos(block) = <<>>
       /\ get_own_output_utxos_and_comrands(block) = <<>>
       /\ db.monitored_utxos = <<>>
    THEN Outcome(db, "ok", FALSE)
    ELSE
    LET db1 == PushBalanceUpdates(db, block)
        prev == block.prev_block_digest
    IN
    IF StrongKeyClash(db1.monitored_utxos, prev) THEN Outcome(db1, "panicked", FALSE)
    ELSE
    LET st1 == ApplyAdditions(block, 1,
                  [msa |-> block.previous_mutator_set_accumulator,
                   steps |-> <<MsaStep("copy", None,
                                       block.previous_mutator_set_accumulator)>>,
                   mps |-> valid_membership_proofs(db1.monitored_utxos, prev),
                   mutxos |-> db1.monitored_utxos,
                   result |-> "ok"])
        db2 == [db1 EXCEPT !.monitored_utxos = st1.mutxos]
    IN
    IF st1.result # "ok" THEN WithSteps(Outcome(db2, st1.result, FALSE), st1)
    ELSE IF ~MutxoCountMatches(st1.mutxos, st1.mps, prev)
    THEN WithSteps(Outcome(db2, "panicked", FALSE), st1)
    ELSE
    LET st2 == ApplyRemovals(block, 1, st1)
        db3 == [db1 EXCEPT !.monitored_utxos = st2.mutxos]
    IN
    IF st2.result # "ok" THEN WithSteps(Outcome(db3, st2.result, FALSE), st2)
    ELSE IF msa_hash(block.next_mutator_set_accumulator) # msa_hash(st2.msa)
    THEN WithSteps(Outcome(db3, "panicked", FALSE), st2)
    ELSE
    LET stored == StoreProofs(st2.mutxos, st2.mps, block.hash)
        db4 == [db1 EXCEPT !.monitored_utxos = stored]
    IN
    IF ~ProofsStillValid(stored, st2.mps, st2.msa)
    THEN WithSteps(Outcome(db4, "panicked", FALSE), st2)
    ELSE WithSteps(Outcome([db4 EXCEPT !.sync_label = block.hash], "ok", TRUE), st2)

\* the blocks that can follow a block with accumulator msa
Unspent(msa) ==
    {i \in DOMAIN msa.aocl : get_indices(msa.aocl[i][1], msa.aocl[i][2], i - 1) \notin msa.swbf}

InputFor(msa, i) ==
    [utxo |-> msa.aocl[i][1],
     removal_record |-> [absolute_indices |-> get_indices(msa.aocl[i][1], msa.aocl[i][2], i - 1)]]

InputLists(msa, max_inputs) ==
    {[k \in DOMAIN s |-> InputFor(msa, s[k])] :
        s \in {t \in SeqsUpTo(Unspent(msa), max_inputs) :
                  \A a, b \in DOMAIN t : a # b => t[a] # t[b]}}

OutputLists(utxos, max_outputs) ==
    SeqsUpTo({[utxo |-> u, randomness |-> 0] : u \in utxos}, max_outputs)

WalletCall(block) ==
    LET r == update_wallet_state_with_new_block(wallet_db, block)
    IN  /\ wallet_db' = r.db
        /\ persisted' = IF r.persist THEN r.db ELSE persisted
        /\ wallet_result' = r.result
        /\ blocks' = (block.hash :> block) @@ blocks
        /\ applied' = Append(applied, block.hash)
        /\ msa_state' = r.steps
        /\ allocation' = NoAllocation
        /\ UNCHANGED issued

\* WalletState::new_from_wallet_secret: a wallet whose sync label is the
\* default digest is given the genesis block
new_from_wallet_secret ==
    /\ wallet_result = "none"
    /\ wallet_db.sync_label = "default"
    /\ WalletCall(genesis_block)
    /\ UNCHANGED <<minerVars, mset, call, state, send_screen>>

\* the main loop gives the wallet block n, whose parent the wallet has seen;
\* the block's transaction has up to max_outputs outputs and max_inputs inputs
GiveBlock(n, utxos, max_outputs, max_inputs) ==
    /\ wallet_result \in {"ok", "err"}
    /\ n \notin RangeOf(applied)
    /\ Parent(n) \in RangeOf(applied)
    /\ LET previous_msa == blocks[Parent(n)].next_mutator_set_accumulator IN
       \E outputs \in OutputLists(utxos, max_outputs),
          inputs \in InputLists(previous_msa, max_inputs) :
          WalletCall(MakeBlock(n, Parent(n), previous_msa, outputs, inputs))
    /\ UNCHANGED <<minerVars, mset, call, state, send_screen>>

NewBlock(n) == GiveBlock(n, Utxos, MaxOutputs, MaxInputs)

\* any MaxBlocks blocks of the tree, in any order the tree allows
WalletNewBlock ==
    /\ Len(applied) <= MaxBlocks
    /\ \E n \in BlockNames : NewBlock(n)

NextWallet == new_from_wallet_secret \/ WalletNewBlock

SpecWallet == Init /\ [][NextWallet]_vars

\* the main loop gives the wallet a block again that it has given before
WalletSameBlock ==
    /\ wallet_result \in {"ok", "err"}
    /\ Len(applied) <= MaxBlocks
    /\ \E n \in RangeOf(applied) : WalletCall(blocks[n])
    /\ UNCHANGED <<minerVars, mset, call, state, send_screen>>

NextReapply == new_from_wallet_secret \/ WalletNewBlock \/ WalletSameBlock

SpecReapply == Init /\ [][NextReapply]_vars

\* the accumulators that lack the last commitments of msa
Truncated(msa) ==
    {[aocl |-> SubSeq(msa.aocl, 1, k), swbf |-> {}] : k \in 0..(Len(msa.aocl) - 1)}

\* the wallet is given a block n whose previous mutator set is not the one its
\* parent has left: the proofs the wallet holds for the parent do not fit it
WalletStaleBlock ==
    /\ wallet_result \in {"ok", "err"}
    /\ Len(applied) <= MaxBlocks
    /\ \E n \in BlockNames :
          /\ n \notin RangeOf(applied)
          /\ Parent(n) \in RangeOf(applied)
          /\ \E previous_msa \in Truncated(blocks[Parent(n)].next_mutator_set_accumulator),
                outputs \in OutputLists(Utxos, SmallTxSize) :
                WalletCall(MakeBlock(n, Parent(n), previous_msa, outputs, <<>>))
    /\ UNCHANGED <<minerVars, mset, call, state, send_screen>>

NextStale == new_from_wallet_secret \/ WalletNewBlock \/ WalletStaleBlock

SpecStale == Init /\ [][NextStale]_vars

\* funds: get_wallet_status_from_lock and allocate_sufficient_input_funds
RECURSIVE SumAmounts(_)
SumAmounts(utxos) ==
    IF utxos = <<>> THEN 0 ELSE Head(utxos).amount + SumAmounts(Tail(utxos))

\* the monitored UTXOs from the i-th on that are spent or not, and synced to
\* the block or not, in the order of the vector
\* the spent UTXOs are listed with the unspent ones
RECURSIVE StatusElements_IgnoresSpent(_, _, _, _, _)
StatusElements_IgnoresSpent(mutxos, i, digest, spent, synced) ==
    IF i > Len(mutxos) \/ spent THEN <<>>
    ELSE LET mutxo == mutxos[i]
             rest == StatusElements_IgnoresSpent(mutxos, i + 1, digest, spent, synced)
         IN  IF is_synced_to(mutxo, digest) = synced
             THEN <<[utxo |-> mutxo.utxo,
                     mp |-> IF synced
                            THEN get_membership_proof_for_block(mutxo, digest)
                            ELSE mutxo.blockhash_to_membership_proof[1].mp]>> \o rest
             ELSE rest

RECURSIVE StatusElements(_, _, _, _, _)
StatusElements(mutxos, i, digest, spent, synced) ==
    IF i > Len(mutxos) THEN <<>>
    ELSE LET mutxo == mutxos[i]
             rest == StatusElements(mutxos, i + 1, digest, spent, synced)
         IN  IF /\ (mutxo.spent_in_block # None) = spent
                /\ is_synced_to(mutxo, digest) = synced
             THEN <<[utxo |-> mutxo.utxo,
                     mp |-> IF synced
                            THEN get_membership_proof_for_block(mutxo, digest)
                            ELSE mutxo.blockhash_to_membership_proof[1].mp]>> \o rest
             ELSE rest

UtxosOf(elements) == [k \in DOMAIN elements |-> elements[k].utxo]

get_wallet_status_from_lock(db, block) ==
    LET list(spent, synced) ==
            StatusElements(db.monitored_utxos, 1, block.hash, spent, synced)
    IN  [synced_unspent |-> list(FALSE, TRUE),
         synced_unspent_amount |-> SumAmounts(UtxosOf(list(FALSE, TRUE))),
         unsynced_unspent |-> list(FALSE, FALSE),
         unsynced_unspent_amount |-> SumAmounts(UtxosOf(list(FALSE, FALSE))),
         synced_spent |-> list(TRUE, TRUE),
         synced_spent_amount |-> SumAmounts(UtxosOf(list(TRUE, TRUE))),
         unsynced_spent |-> list(TRUE, FALSE),
         unsynced_spent_amount |-> SumAmounts(UtxosOf(list(TRUE, FALSE)))]

\* everything that is synced and unspent is taken
AllocateLoop_TakesAll(synced_unspent, requested_amount, ret) == synced_unspent

RECURSIVE AllocateLoop(_, _, _)
\* the next element is taken while the amount is not reached
AllocateLoop(synced_unspent, requested_amount, ret) ==
    IF SumAmounts(UtxosOf(ret)) < requested_amount
    THEN AllocateLoop(synced_unspent, requested_amount,
                      Append(ret, synced_unspent[Len(ret) + 1]))
    ELSE ret

\* a monitored UTXO without a membership proof makes the status panic
StatusPanics(db) ==
    \E i \in DOMAIN db.monitored_utxos :
        db.monitored_utxos[i].blockhash_to_membership_proof = <<>>

allocate_sufficient_input_funds_from_lock(db, requested_amount, block) ==
    IF StatusPanics(db)
    THEN [result |-> "panicked", requested_amount |-> requested_amount,
          block |-> block.hash, ret |-> <<>>]
    ELSE LET wallet_status == get_wallet_status_from_lock(db, block) IN
         IF wallet_status.synced_unspent_amount < requested_amount
         THEN [result |-> "err", requested_amount |-> requested_amount,
               block |-> block.hash, ret |-> <<>>]
         ELSE [result |-> "ok", requested_amount |-> requested_amount,
               block |-> block.hash,
               ret |-> AllocateLoop(wallet_status.synced_unspent, requested_amount, <<>>)]

\* funds are requested against one of the blocks the wallet was given
AllocateFunds ==
    /\ wallet_result \in {"ok", "err"}
    /\ \E requested_amount \in 0..MaxAmount, h \in DOMAIN blocks :
          allocation' = allocate_sufficient_input_funds_from_lock(
                            wallet_db, requested_amount, blocks[h])
    /\ UNCHANGED <<wallet_db, persisted, wallet_result, blocks, applied, msa_state,
                   issued>>
    /\ UNCHANGED <<minerVars, mset, call, state, send_screen>>

\* the wallet's own outputs are of two amounts
FundsUtxos == Utxos \cup {[amount |-> 1 + 1, pubkey |-> "me"]}

FundsNewBlock ==
    /\ Len(applied) <= MaxBlocks
    /\ \E n \in BlockNames : GiveBlock(n, FundsUtxos, SmallTxSize, SmallTxSize)

NextFunds == new_from_wallet_secret \/ FundsNewBlock \/ AllocateFunds

SpecFunds == Init /\ [][NextFunds]_vars

\* output counter and sender randomness
next_output_counter_from_lock(db) ==
    [db |-> [db EXCEPT !.counter = @ + 1], current_counter |-> db.counter]

\* Hash::hash_pair: distinct pairs have distinct digests
hash_pair(left, right) == <<"hash_pair", left, right>>

get_commitment_randomness_seed == "commitment_randomness_seed"

next_output_randomness_from_lock(db) ==
    LET fetched == next_output_counter_from_lock(db)
    IN  [db |-> fetched.db, counter |-> fetched.current_counter,
         randomness |-> hash_pair(fetched.current_counter,
                                  get_commitment_randomness_seed)]

\* WalletSecret::generate_sender_randomness: a digest of the secret, the
\* block height and the receiver digest
generate_sender_randomness(block_height, receiver_digest) ==
    <<"sender_randomness", block_height, receiver_digest>>

\* the privacy digest of the address of nth_generation_spending_key(0)
receiver_digest == "privacy_digest_0"

RECURSIVE Height(_)
Height(n) == IF n = "G" THEN 0 ELSE Height(Parent(n)) + 1

make_coinbase_transaction(block_height) ==
    [kind |-> "coinbase", counter |-> block_height,
     randomness |-> generate_sender_randomness(block_height, receiver_digest)]

\* the wallet commits to an output with the next output randomness
NextOutputRandomness ==
    /\ wallet_result \in {"ok", "err"}
    /\ Len(issued) < MaxIssued
    /\ LET r == next_output_randomness_from_lock(wallet_db)
       IN  /\ wallet_db' = r.db
           /\ issued' = Append(issued, [kind |-> "output", counter |-> r.counter,
                                        randomness |-> r.randomness])
    /\ UNCHANGED <<persisted, wallet_result, blocks, applied, msa_state, allocation>>
    /\ UNCHANGED <<minerVars, mset, call, state, send_screen>>

\* create_block_transaction on a block the node holds: the coinbase output of
\* a template for the next height
CreateBlockTransaction ==
    /\ wallet_result \in {"ok", "err"}
    /\ Len(issued) < MaxIssued
    /\ \E tip \in RangeOf(applied) :
          issued' = Append(issued, make_coinbase_transaction(Height(tip) + 1))
    /\ UNCHANGED <<wallet_db, persisted, wallet_result, blocks, applied, msa_state,
                   allocation>>
    /\ UNCHANGED <<minerVars, mset, call, state, send_screen>>

\* the node stops and starts: new_from_wallet_secret connects to the database
\* as it was persisted, and applies the genesis block if the sync label is
\* the default digest
Restart ==
    /\ wallet_result \in {"ok", "err"}
    /\ wallet_db # persisted
    /\ LET r == IF persisted.sync_label = "default"
                THEN update_wallet_state_with_new_block(persisted, genesis_block)
                ELSE Outcome(persisted, wallet_result, FALSE)
       IN  /\ wallet_db' = r.db
           /\ persisted' = IF r.persist THEN r.db ELSE persisted
           /\ wallet_result' = r.result
    /\ allocation' = NoAllocation
    /\ UNCHANGED <<blocks, applied, msa_state, issued>>
    /\ UNCHANGED <<minerVars, mset, call, state, send_screen>>

CounterNewBlock ==
    /\ Len(applied) < MaxBlocks
    /\ \E n \in BlockNames : GiveBlock(n, Utxos, SmallTxSize, SmallTxSize)

NextCounter ==
    \/ new_from_wallet_secret
    \/ CounterNewBlock
    \/ NextOutputRandomness
    \/ CreateBlockTransaction
    \/ Restart

SpecCounter == Init /\ [][NextCounter]_vars

\* the mutator set accumulator with items added and removed in any order

\* the proof is left as it is
update_from_addition_Stale(mp, msa) == mp

\* MsMembershipProof::update_from_addition: the proof's path grows to the
\* list with the new leaf
update_from_addition(mp, msa) == [mp EXCEPT !.aocl_len = Len(msa.aocl) + 1]

update_from_remove(mp, removal_record) == mp

\* the removal records are applied to one proof, one after the other
RECURSIVE UpdateFromRemoves(_, _)
UpdateFromRemoves(mp, removal_records) ==
    IF removal_records = <<>> THEN mp
    ELSE UpdateFromRemoves(update_from_remove(mp, Head(removal_records)),
                           Tail(removal_records))

msa_drop(msa, item, mp) ==
    [absolute_indices |-> get_indices(item, mp.randomness, mp.leaf_index)]

\* the last removal record is left out
msa_batch_remove_SkipsLast(msa, removal_records, preserved_membership_proofs) ==
    [msa |-> [msa EXCEPT !.swbf = @ \cup
                {removal_records[k].absolute_indices :
                    k \in 1..(Len(removal_records) - 1)}],
     membership_proofs |-> preserved_membership_proofs]

\* batch_remove: the bits of all records are set and the preserved proofs are
\* rewritten in one pass
msa_batch_remove(msa, removal_records, preserved_membership_proofs) ==
    [msa |-> [msa EXCEPT !.swbf = @ \cup
                {removal_records[k].absolute_indices : k \in DOMAIN removal_records}],
     membership_proofs |-> preserved_membership_proofs]

MsRandomness == {0, 1}

\* batch updates take the proofs as a set of entries
AsEntries(membership_proofs) ==
    {[index |-> k, mp |-> membership_proofs[k]] : k \in DOMAIN membership_proofs}

AsSequence(entries) ==
    [k \in 1..Cardinality(entries) |-> (CHOOSE e \in entries : e.index = k).mp]

\* an item is added: its proof is made, all proofs are updated, the addition
\* record is added
MsAddItem ==
    /\ Len(mset.items) < MaxMsItems
    /\ \E utxo \in Utxos, sender_randomness \in MsRandomness :
          LET accumulator == mset.accumulator
              addition_record == commit(utxo, sender_randomness)
              membership_proof == msa_prove(accumulator, utxo, sender_randomness)
              updated == AsSequence(batch_update_from_addition(
                              AsEntries(mset.membership_proofs), accumulator))
          IN  mset' = [mset EXCEPT
                  !.accumulator = msa_add(accumulator, addition_record),
                  !.items = Append(@, utxo),
                  !.membership_proofs = Append(updated, membership_proof),
                  !.membership_proofs_sequential =
                      Append([k \in DOMAIN @ |-> update_from_addition(@[k], accumulator)],
                             membership_proof),
                  !.batch = NoBatch]
    /\ UNCHANGED <<minerVars, walletVars, call, state, send_screen>>

\* an item of the set is removed: its removal record is made, all proofs are
\* updated, the record is removed
MsRemoveItem ==
    /\ \E item_index \in DOMAIN mset.items \ mset.removed :
          LET accumulator == mset.accumulator
              removal_record == msa_drop(accumulator, mset.items[item_index],
                                         mset.membership_proofs[item_index])
              updated == AsSequence(batch_update_from_remove(
                              AsEntries(mset.membership_proofs), removal_record))
          IN  mset' = [mset EXCEPT
                  !.accumulator = msa_remove(accumulator, removal_record),
                  !.membership_proofs = updated,
                  !.membership_proofs_sequential =
                      [k \in DOMAIN @ |-> update_from_remove(@[k], removal_record)],
                  !.removed = @ \cup {item_index},
                  !.batch = NoBatch]
    /\ UNCHANGED <<minerVars, walletVars, call, state, send_screen>>

\* some items of the set are removed with one batch_remove, all proofs being
\* preserved
MsBatchRemove ==
    /\ \E skipped_removes \in SUBSET (DOMAIN mset.items \ mset.removed) :
          LET accumulator == mset.accumulator
              dropped == SortedSeq((DOMAIN mset.items \ mset.removed) \ skipped_removes)
              removal_records ==
                  [k \in DOMAIN dropped |->
                      msa_drop(accumulator, mset.items[dropped[k]],
                               mset.membership_proofs[dropped[k]])]
              r == msa_batch_remove(accumulator, removal_records, mset.membership_proofs)
          IN  /\ dropped # <<>>
              /\ mset' = [mset EXCEPT
                      !.accumulator = r.msa,
                      !.membership_proofs = r.membership_proofs,
                      !.membership_proofs_sequential =
                          [k \in DOMAIN @ |-> UpdateFromRemoves(@[k], removal_records)],
                      !.removed = @ \cup RangeOf(dropped),
                      !.batch = [accumulator |-> accumulator,
                                 removal_records |-> removal_records,
                                 dropped |-> RangeOf(dropped)]]
    /\ UNCHANGED <<minerVars, walletVars, call, state, send_screen>>

NextMsa == MsAddItem \/ MsRemoveItem \/ MsBatchRemove

SpecMsa == Init /\ [][NextMsa]_vars

\* TransactionKernel (transaction_kernel.rs): BFieldCodec and mast_hash.
\* A removal record, an addition record, an amount, a timestamp and a digest
\* are one field element each; an Option is a list of at most one element.
FieldElements == 0..MaxFieldElement

Pubscripts ==
    {<<digest, input>> :
        digest \in FieldElements, input \in SeqsUpTo(FieldElements, MaxKernelLen)}

TransactionKernels ==
    [inputs : SeqsUpTo(FieldElements, MaxKernelLen),
     outputs : SeqsUpTo(FieldElements, MaxKernelLen),
     pubscript_hashes_and_inputs : SeqsUpTo(Pubscripts, MaxKernelLen),
     fee : FieldElements,
     coinbase : SeqsUpTo(FieldElements, 1),
     timestamp : FieldElements,
     mutator_set_hash : FieldElements]

RECURSIVE Flatten(_)
Flatten(seqs) == IF seqs = <<>> THEN <<>> ELSE Head(seqs) \o Flatten(Tail(seqs))

\* a field of dynamic length is preceded by its length
Prefixed(sequence) == <<Len(sequence)>> \o sequence

\* Vec<T> of elements of static length: the number of elements, then the
\* elements
encode_vec(elements) == <<Len(elements)>> \o elements

\* (Digest, Vec<BFieldElement>)
encode_pubscript(pubscript) == <<pubscript[1]>> \o encode_vec(pubscript[2])

\* Vec<(Digest, Vec<BFieldElement>)>: the elements have dynamic length
encode_pubscripts(pubscripts) ==
    <<Len(pubscripts)>>
        \o Flatten([k \in DOMAIN pubscripts |-> Prefixed(encode_pubscript(pubscripts[k]))])

\* None and Some(0) have the same encoding
encode_option_Untagged(option) ==
    IF option = <<>> THEN <<0>> ELSE option

\* Option<T>: 0 for None, 1 and the value for Some
encode_option(option) ==
    IF option = <<>> THEN <<0>> ELSE <<1>> \o option

\* the field sequences of a kernel, in the order of mast_sequences
mast_sequences(kernel) ==
    <<encode_vec(kernel.inputs),
      encode_vec(kernel.outputs),
      encode_pubscripts(kernel.pubscript_hashes_and_inputs),
      <<kernel.fee>>,
      encode_option(kernel.coinbase),
      <<kernel.timestamp>>,
      <<kernel.mutator_set_hash>>>>

\* derive(BFieldCodec): the fields in declared order, those of dynamic length
\* preceded by their length
encode(kernel) ==
    Prefixed(encode_vec(kernel.inputs))
        \o Prefixed(encode_vec(kernel.outputs))
        \o Prefixed(encode_pubscripts(kernel.pubscript_hashes_and_inputs))
        \o <<kernel.fee>>
        \o Prefixed(encode_option(kernel.coinbase))
        \o <<kernel.timestamp>>
        \o <<kernel.mutator_set_hash>>

Failed == [ok |-> FALSE, value |-> <<>>, rest |-> <<>>]

Parsed(value, rest) == [ok |-> TRUE, value |-> value, rest |-> rest]

Drop(sequence, n) == SubSeq(sequence, n + 1, Len(sequence))

\* one field element
take_element(sequence) ==
    IF sequence = <<>> THEN Failed ELSE Parsed(Head(sequence), Tail(sequence))

\* a field of dynamic length: its length, then that many elements
take_prefixed(sequence) ==
    IF sequence = <<>> \/ Len(sequence) < sequence[1] + 1 THEN Failed
    ELSE Parsed(SubSeq(sequence, 2, sequence[1] + 1), Drop(sequence, sequence[1] + 1))

decode_vec(sequence) ==
    IF sequence = <<>> \/ Len(sequence) # sequence[1] + 1 THEN Failed
    ELSE Parsed(Tail(sequence), <<>>)

decode_option(sequence) ==
    IF sequence = <<0>> THEN Parsed(<<>>, <<>>)
    ELSE IF Len(sequence) = 2 /\ sequence[1] = 1 THEN Parsed(Tail(sequence), <<>>)
    ELSE Failed

decode_pubscript(sequence) ==
    IF sequence = <<>> THEN Failed
    ELSE LET input == decode_vec(Tail(sequence))
         IN  IF input.ok THEN Parsed(<<Head(sequence), input.value>>, <<>>) ELSE Failed

\* n elements of dynamic length
RECURSIVE decode_elements(_, _)
decode_elements(n, sequence) ==
    IF n = 0 THEN (IF sequence = <<>> THEN Parsed(<<>>, <<>>) ELSE Failed)
    ELSE LET field == take_prefixed(sequence)
             element == decode_pubscript(field.value)
             others == decode_elements(n - 1, field.rest)
         IN  IF field.ok /\ element.ok /\ others.ok
             THEN Parsed(<<element.value>> \o others.value, <<>>)
             ELSE Failed

decode_pubscripts(sequence) ==
    IF sequence = <<>> THEN Failed ELSE decode_elements(Head(sequence), Tail(sequence))

decode(sequence) ==
    LET f1 == take_prefixed(sequence)
        inputs == decode_vec(f1.value)
        f2 == take_prefixed(f1.rest)
        outputs == decode_vec(f2.value)
        f3 == take_prefixed(f2.rest)
        pubscripts == decode_pubscripts(f3.value)
        fee == take_element(f3.rest)
        f5 == take_prefixed(fee.rest)
        coinbase == decode_option(f5.value)
        timestamp == take_element(f5.rest)
        mutator_set_hash == take_element(timestamp.rest)
    IN  IF /\ f1.ok /\ inputs.ok /\ f2.ok /\ outputs.ok /\ f3.ok /\ pubscripts.ok
           /\ fee.ok /\ f5.ok /\ coinbase.ok /\ timestamp.ok /\ mutator_set_hash.ok
           /\ mutator_set_hash.rest = <<>>
        THEN Parsed([inputs |-> inputs.value, outputs |-> outputs.value,
                     pubscript_hashes_and_inputs |-> pubscripts.value,
                     fee |-> fee.value, coinbase |-> coinbase.value,
                     timestamp |-> timestamp.value,
                     mutator_set_hash |-> mutator_set_hash.value], <<>>)
        ELSE Failed

\* Hash::hash_varlen: distinct sequences have distinct digests
hash_varlen(sequence) == <<"hash_varlen", sequence>>

\* Digest::default().encode(): DIGEST_LENGTH zeros
Digest_default == <<0, 0, 0, 0, 0>>

IsPowerOfTwo(n) == \E e \in 0..n : 2^e = n

RECURSIVE PadToPowerOfTwo(_)
PadToPowerOfTwo(sequences) ==
    IF IsPowerOfTwo(Len(sequences)) THEN sequences
    ELSE PadToPowerOfTwo(Append(sequences, Digest_default))

\* MerkleTreeMaker::from_digests(..).get_root()
RECURSIVE MerkleRoot(_)
MerkleRoot(digests) ==
    IF Len(digests) = 1 THEN digests[1]
    ELSE MerkleRoot([k \in 1..(Len(digests) \div 2) |->
                        hash_pair(digests[2 * k - 1], digests[2 * k])])

mast_hash(kernel) ==
    LET sequences == PadToPowerOfTwo(mast_sequences(kernel))
    IN  MerkleRoot([k \in DOMAIN sequences |-> hash_varlen(sequences[k])])

\* test_decode_transaction_kernel: a kernel is encoded and decoded
CallDecodeEncode ==
    /\ call = NoCall
    /\ \E kernel \in TransactionKernels :
          call' = [op |-> "decode", kernel |-> kernel, encoded |-> encode(kernel),
                   decoded |-> decode(encode(kernel))]
    /\ UNCHANGED <<minerVars, walletVars, mset, state, send_screen>>

CallMastHash ==
    /\ call = NoCall
    /\ \E kernel \in TransactionKernels :
          call' = [op |-> "mast_hash", kernel |-> kernel, digest |-> mast_hash(kernel)]
    /\ UNCHANGED <<minerVars, walletVars, mset, state, send_screen>>

NextKernel == CallDecodeEncode \/ CallMastHash

SpecKernel == Init /\ [][NextKernel]_vars

\* ---------------------------------------------------------------------
\* The block transaction of a template: the coinbase transaction and the
\* transactions selected from the mempool

\* the removal records and addition records of the transactions in the mempool
MempoolInputs == {<<>>, <<"removal_record">>}

MempoolOutputs == {<<"recipient">>, <<"recipient", "change">>}

MempoolTransactions ==
    [inputs : MempoolInputs, outputs : MempoolOutputs, fee : 0..MaxFee,
     coinbase : {<<>>}]

\* Mempool::get_transactions_for_block: the transactions that fit the capacity
\* of 20 MB, in the order of the mempool; every mempool of the bounds fits
get_transactions_for_block(mempool) == mempool

\* Block::get_mining_reward: halved with the height
get_mining_reward(block_height) == MaxReward \div (2 ^ block_height)

\* the fold of the fees of the selected transactions
RECURSIVE transaction_fees(_)
transaction_fees(transactions) ==
    IF transactions = <<>> THEN 0
    ELSE Head(transactions).fee + transaction_fees(Tail(transactions))

\* the commitment to the coinbase UTXO
coinbase_addition_record(coinbase_amount, block_height) ==
    <<"commit", coinbase_amount,
      generate_sender_randomness(block_height, receiver_digest), receiver_digest>>

\* the kernel make_coinbase_transaction builds: no input, the coinbase output,
\* no fee, and the amount of the coinbase UTXO as coinbase
make_coinbase_kernel(coinbase_amount, block_height) ==
    [inputs |-> <<>>,
     outputs |-> <<coinbase_addition_record(coinbase_amount, block_height)>>,
     fee |-> 0,
     coinbase |-> <<coinbase_amount>>]

\* Transaction::merge_with: the inputs and the outputs of both, the sum of the
\* fees and the coinbase of the one that has a coinbase
merge_with(acc, transaction) ==
    [inputs |-> acc.inputs \o transaction.inputs,
     outputs |-> acc.outputs \o transaction.outputs,
     fee |-> acc.fee + transaction.fee,
     coinbase |-> IF acc.coinbase # <<>> THEN acc.coinbase ELSE transaction.coinbase]

\* the fold of merge_with over the selected transactions
RECURSIVE MergeAll(_, _)
MergeAll(acc, transactions) ==
    IF transactions = <<>> THEN acc
    ELSE MergeAll(merge_with(acc, Head(transactions)), Tail(transactions))

\* the coinbase pays the reward only
create_block_transaction_NoFees(tip, mempool) ==
    LET transactions_to_include == get_transactions_for_block(mempool)
        next_block_height == tip.height + 1
        coinbase_amount == get_mining_reward(next_block_height)
    IN  MergeAll(make_coinbase_kernel(coinbase_amount, next_block_height),
                 transactions_to_include)

create_block_transaction(tip, mempool) ==
    LET transactions_to_include == get_transactions_for_block(mempool)
        next_block_height == tip.height + 1
        coinbase_amount == get_mining_reward(next_block_height)
                               + transaction_fees(transactions_to_include)
    IN  MergeAll(make_coinbase_kernel(coinbase_amount, next_block_height),
                 transactions_to_include)

\* the miner builds the block transaction on a block, from a mempool
CallCreateBlockTransaction ==
    /\ call = NoCall
    /\ \E tip \in ParentBlocks,
          mempool \in SeqsUpTo(MempoolTransactions, MaxMempool) :
          call' = [op |-> "create_block_transaction",
                   height |-> tip.height,
                   mempool |-> mempool,
                   transaction |-> create_block_transaction(tip, mempool)]
    /\ UNCHANGED <<minerVars, walletVars, mset, state, send_screen>>

NextTx == CallCreateBlockTransaction

SpecTx == Init /\ [][NextTx]_vars

\* ---------------------------------------------------------------------
\* State: the latest block header, the databases and the syncing flag that
\* the tasks of the node share

\* the blocks given to update_latest_block: two of height 1, one of height 2
StateBlocks ==
    {[hash |-> "A1", height |-> 1], [hash |-> "B1", height |-> 1],
     [hash |-> "A2", height |-> 2]}

StateGenesis == [hash |-> "G", height |-> 0]

\* leveldb's put and get on a database of key-value pairs: put replaces the
\* value the key had
kv_put(database, key, value) ==
    {e \in database : e[1] # key} \cup {<<key, value>>}

kv_get(database, key) == {e[2] : e \in {f \in database : f[1] = key}}

\* update_latest_block takes the header mutex first
update_latest_block_locks_HeaderFirst == <<"latest_block_header", "databases">>

\* the locks update_latest_block takes, in its order
update_latest_block_locks == <<"databases", "latest_block_header">>

LocksOf(op) ==
    IF op = "update_latest_block" THEN update_latest_block_locks ELSE <<"databases">>

\* a task calls a method of State
StateCall ==
    /\ \E t \in DOMAIN state.tasks :
          /\ state.tasks[t].op = "none"
          /\ \E op \in {"update_latest_block", "get_latest_block", "get_block"},
                block \in StateBlocks :
                state' = [state EXCEPT !.tasks[t] =
                            [op |-> op,
                             arg |-> IF op = "get_latest_block" THEN "none" ELSE block.hash,
                             locks |-> LocksOf(op),
                             result |-> <<>>]]
    /\ UNCHANGED <<minerVars, walletVars, mset, call, send_screen>>

\* databases.lock().await returns: the task holds the tokio mutex
LockDatabases ==
    /\ \E t \in DOMAIN state.tasks :
          /\ state.tasks[t].locks # <<>>
          /\ Head(state.tasks[t].locks) = "databases"
          /\ state.databases_lock = 0
          /\ state' = [state EXCEPT !.databases_lock = t,
                                    !.tasks[t].locks = Tail(@)]
    /\ UNCHANGED <<minerVars, walletVars, mset, call, send_screen>>

\* latest_block_header.lock() returns: the task holds the blocking mutex
LockLatestBlockHeader ==
    /\ \E t \in DOMAIN state.tasks :
          /\ state.tasks[t].locks # <<>>
          /\ Head(state.tasks[t].locks) = "latest_block_header"
          /\ state.latest_block_header_lock = 0
          /\ state' = [state EXCEPT !.latest_block_header_lock = t,
                                    !.tasks[t].locks = Tail(@)]
    /\ UNCHANGED <<minerVars, walletVars, mset, call, send_screen>>

\* the guards of the task are dropped
Unlocked(st, t) ==
    [st EXCEPT !.databases_lock = IF @ = t THEN 0 ELSE @,
               !.latest_block_header_lock = IF @ = t THEN 0 ELSE @]

\* update_latest_block_with_block_header_mutexguard: the three puts and the
\* header
update_latest_block_with_block_header_mutexguard(st, new_block) ==
    [st EXCEPT
        !.databases.block_height_to_hash = kv_put(@, new_block.height, new_block.hash),
        !.databases.block_hash_to_block = kv_put(@, new_block.hash, new_block),
        !.databases.latest_block_header = <<new_block>>,
        !.latest_block_header = new_block]

\* update_latest_block, once it holds both guards, until it returns
UpdateLatestBlock ==
    /\ \E t \in DOMAIN state.tasks :
          /\ state.tasks[t].op = "update_latest_block"
          /\ state.tasks[t].locks = <<>>
          /\ LET new_block == CHOOSE b \in StateBlocks : b.hash = state.tasks[t].arg
                 st == update_latest_block_with_block_header_mutexguard(state, new_block)
             IN  state' = [Unlocked(st, t) EXCEPT
                              !.tasks[t] = [IdleTask EXCEPT !.result = <<"Ok">>]]
    /\ UNCHANGED <<minerVars, walletVars, mset, call, send_screen>>

\* get_latest_block, once it holds the guard: the block of the header the
\* databases hold, or the genesis block
GetLatestBlock ==
    /\ \E t \in DOMAIN state.tasks :
          /\ state.tasks[t].op = "get_latest_block"
          /\ state.tasks[t].locks = <<>>
          /\ LET lookup == state.databases.latest_block_header
                 block == IF lookup = <<>> THEN StateGenesis ELSE lookup[1]
             IN  state' = [Unlocked(state, t) EXCEPT
                              !.tasks[t] = [IdleTask EXCEPT !.result = <<block>>]]
    /\ UNCHANGED <<minerVars, walletVars, mset, call, send_screen>>

\* get_block, once it holds the guard: the block stored under the digest
GetBlock ==
    /\ \E t \in DOMAIN state.tasks :
          /\ state.tasks[t].op = "get_block"
          /\ state.tasks[t].locks = <<>>
          /\ LET found == kv_get(state.databases.block_hash_to_block, state.tasks[t].arg)
                 block == IF found = {} THEN <<>> ELSE <<CHOOSE b \in found : TRUE>>
             IN  state' = [Unlocked(state, t) EXCEPT
                              !.tasks[t] = [IdleTask EXCEPT !.result = block]]
    /\ UNCHANGED <<minerVars, walletVars, mset, call, send_screen>>

\* State::clone: the handle shares the header, the peer map and the
\* databases, and has a new syncing flag, which is false
State_clone(st, h) ==
    [st EXCEPT !.syncing = Append(@, FALSE),
               !.handles = Append(@, Len(st.syncing) + 1)]

CloneState ==
    /\ Len(state.handles) <= MaxClones
    /\ \E h \in DOMAIN state.handles : state' = State_clone(state, h)
    /\ UNCHANGED <<minerVars, walletVars, mset, call, send_screen>>

\* the main thread writes the syncing flag of its handle
WriteSyncing ==
    /\ \E h \in DOMAIN state.handles, value \in BOOLEAN :
          /\ state.syncing[state.handles[h]] # value
          /\ state' = [state EXCEPT !.syncing[state.handles[h]] = value]
    /\ UNCHANGED <<minerVars, walletVars, mset, call, send_screen>>

NextState ==
    \/ StateCall
    \/ LockDatabases
    \/ LockLatestBlockHeader
    \/ UpdateLatestBlock
    \/ GetLatestBlock
    \/ GetBlock
    \/ CloneState
    \/ WriteSyncing

SpecState == Init /\ [][NextState]_vars

\* ---------------------------------------------------------------------
\* The send screen of the dashboard: SendScreen::handle and the sequences
\* check_and_pay_sequence it spawns. A sequence holds the lock of the focus,
\* of the notice or of reset_me only within one of its steps, and a step is
\* taken as a whole.

\* what the user can supply as address and type into the amount field
Addresses == {"good", "bad"}

Characters == {"1", "9", "x"}

\* the RPC server's validate_address: the address, if it parses
validate_address(address) == IF address = "good" THEN <<address>> ELSE NoValue

\* the RPC server's validate_amount: the amount, if the string is a number
validate_amount(amount) ==
    IF amount = <<"1">> THEN <<1>>
    ELSE IF amount = <<"9">> THEN <<9>>
    ELSE NoValue

\* the RPC server's amount_leq_synced_balance
amount_leq_synced_balance(amount, balance) == amount <= balance

\* what an RPC gives back: the server's answer, or an error of the transport
\* (the deadline of the context has passed, the connection is gone)
RpcOk(value) == [ok |-> TRUE, value |-> value]

RpcError == [ok |-> FALSE, value |-> NoValue]

\* a sequence as tokio::spawn has created it: nothing of it has run
NewSequence(address, amount) ==
    [pc |-> "spawned", address |-> address, amount |-> amount,
     valid_address |-> NoValue, valid_amount |-> NoValue,
     enough_balance |-> FALSE, send_invoked |-> FALSE, notices |-> <<>>]

Running(sequence) == sequence.pc \notin {"returned", "panicked"}

\* the sequence shows a notice
Shows(scr, i, notice) ==
    [scr EXCEPT !.notice = notice, !.sequences[i].notices = Append(@, notice)]

\* lines 84-85: the focus goes to the notice, the first notice is shown
SequenceBegins(scr, i) ==
    [Shows(scr, i, "Validating input ...") EXCEPT
        !.focus = "Notice", !.sequences[i].pc = "validate_address"]

\* .unwrap() on the error of an RPC: the task panics where it is
Panics(scr, i) == [scr EXCEPT !.sequences[i].pc = "panicked"]

\* the sequence returns with a notice and the focus on a field
ReturnsTo(scr, i, notice, focus) ==
    [Shows(scr, i, notice) EXCEPT !.focus = focus, !.sequences[i].pc = "returned"]

\* lines 86-99
AfterValidateAddress(scr, i, response) ==
    IF ~response.ok THEN Panics(scr, i)
    ELSE IF response.value = NoValue
    THEN ReturnsTo(scr, i, "Invalid address.", "Address")
    ELSE [Shows(scr, i, "Validated address; validating amount ...") EXCEPT
             !.sequences[i].valid_address = response.value,
             !.sequences[i].pc = "validate_amount"]

\* lines 101-114
AfterValidateAmount(scr, i, response) ==
    IF ~response.ok THEN Panics(scr, i)
    ELSE IF response.value = NoValue
    THEN ReturnsTo(scr, i, "Invalid amount.", "Amount")
    ELSE [Shows(scr, i, "Validated amount; checking against balance ...") EXCEPT
             !.sequences[i].valid_amount = response.value,
             !.sequences[i].pc = "check_balance"]

\* the payment is sent whatever the balance
AfterBalance_Unchecked(scr, i, response) ==
    IF ~response.ok THEN Panics(scr, i)
    ELSE [Shows(scr, i, "Validated inputs; sending ...") EXCEPT
             !.sequences[i].enough_balance = response.value,
             !.sequences[i].send_invoked = TRUE,
             !.sequences[i].pc = "send"]

\* lines 116-138, up to the send RPC being invoked
AfterBalance(scr, i, response) ==
    IF ~response.ok THEN Panics(scr, i)
    ELSE IF ~response.value
    THEN ReturnsTo(scr, i, "Insufficient balance.", "Amount")
    ELSE [Shows(scr, i, "Validated inputs; sending ...") EXCEPT
             !.sequences[i].enough_balance = response.value,
             !.sequences[i].send_invoked = TRUE,
             !.sequences[i].pc = "send"]

\* lines 135-146, from the answer of the send RPC
AfterSend(scr, i, response) ==
    IF ~response.ok THEN Panics(scr, i)
    ELSE IF response.value = NoValue
    THEN ReturnsTo(scr, i, "Could not send due to error.", "Address")
    ELSE [Shows(scr, i, "Payment broadcast!") EXCEPT !.sequences[i].pc = "sleep"]

\* lines 148-152
AfterSleep(scr, i) ==
    [Shows(scr, i, "") EXCEPT
        !.focus = "Address", !.reset_me = TRUE, !.sequences[i].pc = "returned"]

\* the RPC server's send: the transaction, if the wallet has the funds
ServerSend(scr, amount) ==
    IF amount <= scr.balance
    THEN [scr EXCEPT !.balance = @ - amount, !.sent = Append(@, amount)]
    ELSE scr

\* a spawned sequence starts to run
SequenceStart ==
    /\ \E i \in DOMAIN send_screen.sequences :
          /\ send_screen.sequences[i].pc = "spawned"
          /\ send_screen' = SequenceBegins(send_screen, i)
    /\ UNCHANGED <<minerVars, walletVars, mset, call, state>>

SequenceValidateAddress ==
    /\ \E i \in DOMAIN send_screen.sequences :
          /\ send_screen.sequences[i].pc = "validate_address"
          /\ \E response \in
                {RpcOk(validate_address(send_screen.sequences[i].address)), RpcError} :
                send_screen' = AfterValidateAddress(send_screen, i, response)
    /\ UNCHANGED <<minerVars, walletVars, mset, call, state>>

SequenceValidateAmount ==
    /\ \E i \in DOMAIN send_screen.sequences :
          /\ send_screen.sequences[i].pc = "validate_amount"
          /\ \E response \in
                {RpcOk(validate_amount(send_screen.sequences[i].amount)), RpcError} :
                send_screen' = AfterValidateAmount(send_screen, i, response)
    /\ UNCHANGED <<minerVars, walletVars, mset, call, state>>

SequenceCheckBalance ==
    /\ \E i \in DOMAIN send_screen.sequences :
          /\ send_screen.sequences[i].pc = "check_balance"
          /\ \E response \in
                {RpcOk(amount_leq_synced_balance(
                           send_screen.sequences[i].valid_amount[1],
                           send_screen.balance)),
                 [ok |-> FALSE, value |-> FALSE]} :
                send_screen' = AfterBalance(send_screen, i, response)
    /\ UNCHANGED <<minerVars, walletVars, mset, call, state>>

\* the send RPC answers within its deadline: with the transaction, or with
\* None when the server could not build it
SequenceSend ==
    /\ \E i \in DOMAIN send_screen.sequences :
          /\ send_screen.sequences[i].pc = "send"
          /\ LET amount == send_screen.sequences[i].valid_amount[1]
                 served == ServerSend(send_screen, amount)
                 response == IF amount <= send_screen.balance
                             THEN RpcOk(<<amount>>) ELSE RpcOk(NoValue)
             IN  send_screen' = AfterSend(served, i, response)
    /\ UNCHANGED <<minerVars, walletVars, mset, call, state>>

\* the send RPC exceeds its deadline of 40 seconds: the client gets the error
SequenceSendDeadline ==
    /\ \E i \in DOMAIN send_screen.sequences :
          /\ send_screen.sequences[i].pc = "send"
          /\ send_screen' = AfterSend(send_screen, i, RpcError)
    /\ UNCHANGED <<minerVars, walletVars, mset, call, state>>

SequenceSleep ==
    /\ \E i \in DOMAIN send_screen.sequences :
          /\ send_screen.sequences[i].pc = "sleep"
          /\ send_screen' = AfterSleep(send_screen, i)
    /\ UNCHANGED <<minerVars, walletVars, mset, call, state>>

\* lines 159-165: handle clears the fields when a sequence has asked for it
Reset(scr) ==
    IF scr.reset_me
    THEN [scr EXCEPT !.amount = <<>>, !.address = "", !.reset_me = FALSE]
    ELSE scr

\* Screen::focus and Screen::unfocus
ScreenFocus ==
    /\ send_screen' = [send_screen EXCEPT !.in_focus = ~@]
    /\ UNCHANGED <<minerVars, walletVars, mset, call, state>>

\* an event while the screen is not in focus
HandleUnfocused ==
    /\ ~send_screen.in_focus
    /\ send_screen.reset_me
    /\ send_screen' = Reset(send_screen)
    /\ UNCHANGED <<minerVars, walletVars, mset, call, state>>

\* lines 173-211
HandleEnter ==
    /\ send_screen.in_focus
    /\ LET scr == Reset(send_screen) IN
       CASE scr.focus = "Address" ->
                send_screen' = [scr EXCEPT !.input_requested = TRUE]
         [] scr.focus = "Amount" ->
                send_screen' = [scr EXCEPT !.focus = "Ok"]
         [] scr.focus = "Ok" ->
                /\ Len(scr.sequences) < MaxSequences
                /\ send_screen' = [scr EXCEPT !.sequences =
                                      Append(@, NewSequence(scr.address, scr.amount))]
         [] OTHER -> send_screen' = scr
    /\ send_screen' # send_screen
    /\ UNCHANGED <<minerVars, walletVars, mset, call, state>>

\* lines 212-224
HandleUp ==
    /\ send_screen.in_focus
    /\ LET scr == Reset(send_screen) IN
       send_screen' = [scr EXCEPT !.focus =
                          CASE @ = "Address" -> "Ok"
                            [] @ = "Amount" -> "Address"
                            [] @ = "Ok" -> "Amount"
                            [] @ = "Notice" -> "Notice"]
    /\ send_screen' # send_screen
    /\ UNCHANGED <<minerVars, walletVars, mset, call, state>>

\* lines 225-237
HandleDown ==
    /\ send_screen.in_focus
    /\ LET scr == Reset(send_screen) IN
       send_screen' = [scr EXCEPT !.focus =
                          CASE @ = "Address" -> "Amount"
                            [] @ = "Amount" -> "Ok"
                            [] @ = "Ok" -> "Address"
                            [] @ = "Notice" -> "Notice"]
    /\ send_screen' # send_screen
    /\ UNCHANGED <<minerVars, walletVars, mset, call, state>>

\* lines 238-249
HandleChar ==
    /\ send_screen.in_focus
    /\ LET scr == Reset(send_screen) IN
       /\ scr.focus = "Amount"
       /\ Len(scr.amount) < MaxAmountLen
       /\ \E c \in Characters : send_screen' = [scr EXCEPT !.amount = Append(@, c)]
    /\ UNCHANGED <<minerVars, walletVars, mset, call, state>>

\* lines 250-261
HandleBackspace ==
    /\ send_screen.in_focus
    /\ LET scr == Reset(send_screen) IN
       /\ scr.focus = "Amount"
       /\ scr.amount # <<>>
       /\ send_screen' = [scr EXCEPT !.amount = SubSeq(@, 1, Len(@) - 1)]
    /\ UNCHANGED <<minerVars, walletVars, mset, call, state>>

\* lines 267-277: the console hands over the address it was asked for
HandleInputSupplied ==
    /\ send_screen.in_focus
    /\ send_screen.input_requested
    /\ LET scr == Reset(send_screen) IN
       \E string \in Addresses :
          send_screen' = [scr EXCEPT !.address = string, !.focus = "Amount",
                                     !.input_requested = FALSE]
    /\ UNCHANGED <<minerVars, walletVars, mset, call, state>>

NextScreen ==
    \/ ScreenFocus
    \/ HandleUnfocused
    \/ HandleEnter
    \/ HandleUp
    \/ HandleDown
    \/ HandleChar
    \/ HandleBackspace
    \/ HandleInputSupplied
    \/ SequenceStart
    \/ SequenceValidateAddress
    \/ SequenceValidateAmount
    \/ SequenceCheckBalance
    \/ SequenceSend
    \/ SequenceSendDeadline
    \/ SequenceSleep

SpecScreen == Init /\ [][NextScreen]_vars

\* fork recovery: the chain A, B, C is applied, then the longer fork Bp, Cp, Dp
ForkOrder == <<"A", "B", "C", "Bp", "Cp", "Dp">>

ForkNextBlock ==
    /\ Len(applied) \in DOMAIN ForkOrder
    /\ GiveBlock(ForkOrder[Len(applied)], Utxos, SmallTxSize, SmallTxSize)

NextFork == new_from_wallet_secret \/ ForkNextBlock

SpecFork == Init /\ [][NextFork]_vars


Consumes(m) == unseen /\ ~unseen' /\ watch_value.type = m

\* mine() sends NewBlockFound
SendsFound == Len(to_main') > Len(to_main)

\* the block of the NewBlockFound being sent
FoundSent == to_main'[Len(to_main')]

\* mine() spawns a worker
Spawns == spawned' > spawned

\* the branch of the worker is taken with a block that fails proof of work
FoundWithoutPow ==
    /\ pc = "select"
    /\ worker.status = "sent"
    /\ ~has_proof_of_work(worker.header, latest_block)
    /\ worker' = NoWorker
    /\ unseen' = unseen
    /\ main_alive

(***************************************************************************)
(* C1: while the last message of the main loop is NewBlock(b), every       *)
(* NewBlockFound mine() sends is for a block whose parent is b.            *)
(***************************************************************************)
C1_FoundOnlyOnAnnouncedTip ==
    [][(SendsFound /\ watch_value.type = "NewBlock")
        => FoundSent.prev_block_digest = MastHash(watch_value.block)]_vars

(***************************************************************************)
(* C2: whenever mine() takes a NewBlock(b) message, in whatever state, it  *)
(* is left without a worker that can still deliver, its latest_block is b, *)
(* and every template is built on latest_block.                            *)
(***************************************************************************)
C2_NewBlockAdopted ==
    [][/\ Consumes("NewBlock")
            => /\ latest_block' = watch_value.block
               /\ worker'.status \notin {"running", "sent"}
       /\ Spawns
            => worker'.header.prev_block_digest = MastHash(latest_block)]_vars

(***************************************************************************)
(* C3: NewBlockFound is sent only for a block that has proof of work and   *)
(* is valid on latest_block, and a found block that fails the proof-of-    *)
(* work check is discarded: mine() goes on, and does not adopt it.         *)
(***************************************************************************)
C3_FoundNeedsPowAndValidity ==
    [][/\ SendsFound
            => /\ has_proof_of_work(FoundSent, latest_block)
               /\ is_valid(FoundSent, latest_block)
       /\ FoundWithoutPow
            => /\ pc' = "top"
               /\ latest_block' = latest_block
               /\ to_main' = to_main]_vars

(***************************************************************************)
(* C4: mine() leaves the wait that follows NewBlockFound only on the       *)
(* message ReadyToMineNextBlock.                                           *)
(***************************************************************************)
C4_BarrierOnlyReady ==
    [][(pc = "barrier" /\ pc' # "barrier")
        => (unseen /\ watch_value.type = "ReadyToMineNextBlock")]_vars

(***************************************************************************)
(* C5: whenever mine() takes a StopMining message, in whatever state, it   *)
(* becomes paused; while paused it spawns no worker and sends no           *)
(* NewBlockFound, and only StartMining ends the pause.                     *)
(***************************************************************************)
C5_StopMiningPauses ==
    [][/\ Consumes("StopMining")
            => /\ pause_mine'
               /\ worker'.status \notin {"running", "sent"}
       /\ pause_mine => (~Spawns /\ ~SendsFound)
       /\ (pause_mine /\ ~pause_mine') => Consumes("StartMining")]_vars

(***************************************************************************)
(* C6: whenever mine() takes a Shutdown message, in whatever state, it     *)
(* returns Ok, leaving no worker that can deliver; having returned it      *)
(* sends no NewBlockFound.                                                 *)
(***************************************************************************)
C6_ShutdownTerminates ==
    [][/\ Consumes("Shutdown")
            => /\ pc' = "done"
               /\ worker'.status \notin {"running", "sent"}
       /\ pc = "done" => (pc' = "done" /\ ~SendsFound)]_vars

(***************************************************************************)
(* C7: when the head of the loop finds the syncing flag true it builds no  *)
(* template, spawns no worker and sets the mining flag to false; a worker  *)
(* is spawned only after the head of the loop found the node not syncing   *)
(* and mining not paused.                                                  *)
(***************************************************************************)
C7_NoTemplateWhileSyncing ==
    [][/\ (pc = "top" /\ pc' # "top" /\ syncing)
            => /\ pc' = "select"
               /\ worker' = NoWorker
               /\ ~mining'
               /\ ~Spawns
       /\ (pc = "top" /\ pc' = "build") => (~syncing /\ ~pause_mine)
       /\ Spawns => (pc = "build" /\ ~pause_mine)]_vars

\* mine() waits without a worker because the node is syncing
C7_Witness ==
    /\ pc = "select"
    /\ worker = NoWorker
    /\ syncing
    /\ ~pause_mine
    /\ ~mining
    /\ spawned > 0

(***************************************************************************)
(* C8: a worker whose receiver was dropped never delivers a block and      *)
(* draws at most one more nonce before it returns at the check of its      *)
(* sender; a worker that reads the syncing flag true, at an iteration      *)
(* whose count is a multiple of the period, returns without sending.       *)
(***************************************************************************)
C8_OrphanStops ==
    \A o \in orphans :
        /\ o.status \in {"running", "returned"}
        /\ o.status = "running"
            => /\ o.after_drop <= 1
               /\ (o.after_drop = 1 => o.wpc # "sync")

C8_SyncingStops ==
    (/\ worker.status = "running"
     /\ worker.wpc = "sync"
     /\ worker.counter % SyncCheckPeriod = 0
     /\ syncing
     /\ worker' # worker
     /\ pc' = pc)
        => worker' = Ended("syncing")

C8_WorkerCancellation == []C8_OrphanStops /\ [][C8_SyncingStops]_vars

\* a worker whose receiver was dropped has returned at the check of its
\* sender
C8_Witness == Ended("cancelled") \in orphans

(* C9: in the fork recovery scenario, once the wallet has been given A, B, C
   and then the longer fork Bp, Cp, Dp on A, no monitored UTXO is still
   confirmed in B or C, every own output of Bp, Cp and Dp is a monitored UTXO
   confirmed in its block with a membership proof stored for Dp (one that
   verifies against Dp's accumulator unless the UTXO is spent), and the sync
   label is the hash of Dp. *)
C9_ForkRecovery ==
    (applied = <<"G">> \o ForkOrder /\ wallet_result = "ok") =>
        /\ \A i \in DOMAIN wallet_db.monitored_utxos :
              wallet_db.monitored_utxos[i].confirmed_in_block \notin {"B", "C"}
        /\ \A n \in {"Bp", "Cp", "Dp"} : \A k \in DOMAIN blocks[n].outputs :
              matches_pubkey(blocks[n].outputs[k].utxo) =>
                 \E i \in DOMAIN wallet_db.monitored_utxos :
                    LET mutxo == wallet_db.monitored_utxos[i] IN
                    /\ mutxo.utxo = blocks[n].outputs[k].utxo
                    /\ mutxo.confirmed_in_block = n
                    /\ is_synced_to(mutxo, "Dp")
                    /\ \/ mutxo.spent_in_block # None
                       \/ msa_verify(blocks["Dp"].next_mutator_set_accumulator, mutxo.utxo,
                                     get_membership_proof_for_block(mutxo, "Dp"))
        /\ wallet_db.sync_label = "Dp"

(* C10: whenever update_wallet_state_with_new_block returns Ok for a block,
   the sync label is that block's hash, in memory and as persisted; this
   includes a block without an input or output of the wallet while the wallet
   monitors no UTXO. *)
C10_SyncLabelFollowsBlock ==
    (applied # <<>> /\ wallet_result = "ok") =>
        /\ wallet_db.sync_label = applied[Len(applied)]
        /\ persisted.sync_label = applied[Len(applied)]

(* C11: in every wallet state a monitored UTXO whose spent_in_block is set
   has confirmed_in_block set. *)
C11_SpentOnlyAfterConfirmed ==
    \A i \in DOMAIN wallet_db.monitored_utxos :
        wallet_db.monitored_utxos[i].spent_in_block # None =>
            wallet_db.monitored_utxos[i].confirmed_in_block # None

C11_Witness ==
    \E i \in DOMAIN wallet_db.monitored_utxos :
        /\ wallet_db.monitored_utxos[i].spent_in_block # None
        /\ wallet_db.monitored_utxos[i].confirmed_in_block # None
        /\ wallet_db.monitored_utxos[i].spent_in_block
              # wallet_db.monitored_utxos[i].confirmed_in_block

\* the last block given to the wallet
LastBlock == blocks[applied[Len(applied)]]

\* the last call went through the block's records and returned Ok
AppliedRecords == applied # <<>> /\ wallet_result = "ok" /\ msa_state # <<>>

\* the records of a block in the order the accumulator is to take them
RecordsInOrder(block) ==
    <<[op |-> "copy", record |-> None]>>
        \o [k \in DOMAIN block.outputs |->
              [op |-> "add",
               record |-> commit(block.outputs[k].utxo, block.outputs[k].randomness)]]
        \o [k \in DOMAIN block.inputs |->
              [op |-> "remove", record |-> block.inputs[k].removal_record]]

(* C12: a call that goes through a block's records and returns Ok starts
   from the accumulator of the block's parent, applies every addition record
   in block order, then every removal record in block order, each to the
   result of the step before, and ends with an accumulator whose hash is the
   hash of the block's own accumulator. *)
C12_AdditionsBeforeRemovals ==
    AppliedRecords =>
        LET expected == RecordsInOrder(LastBlock) IN
        /\ Len(msa_state) = Len(expected)
        /\ \A k \in DOMAIN msa_state :
              /\ msa_state[k].op = expected[k].op
              /\ msa_state[k].record = expected[k].record
              /\ msa_state[k].msa =
                    CASE msa_state[k].op = "copy" ->
                            blocks[LastBlock.prev_block_digest].next_mutator_set_accumulator
                      [] msa_state[k].op = "add" ->
                            msa_add(msa_state[k - 1].msa, expected[k].record)
                      [] msa_state[k].op = "remove" ->
                            msa_remove(msa_state[k - 1].msa, expected[k].record)
        /\ msa_hash(msa_state[Len(msa_state)].msa)
              = msa_hash(LastBlock.next_mutator_set_accumulator)

C12_Witness ==
    /\ AppliedRecords
    /\ Len(LastBlock.outputs) = 2
    /\ Len(LastBlock.inputs) = 2
    /\ LastBlock.inputs[1] # LastBlock.inputs[2]

\* a step in which the wallet is given a block and the call returns Ok
ReturnsOk == Len(applied') = Len(applied) + 1 /\ wallet_result' = "ok"

GivenBlock == blocks'[applied'[Len(applied')]]

(* C13: when update_wallet_state_with_new_block(B) returns Ok, every
   monitored UTXO that held a membership proof for B's parent, and every
   monitored UTXO created from an output of B, holds a membership proof
   stored under B's digest, and if the UTXO is unspent this proof verifies
   against B's accumulator. *)
C13_ProofsAdvancedToBlock ==
    [][ReturnsOk =>
          \A i \in DOMAIN wallet_db'.monitored_utxos :
             (\/ i \notin DOMAIN wallet_db.monitored_utxos
              \/ is_synced_to(wallet_db.monitored_utxos[i], GivenBlock.prev_block_digest))
             => LET mutxo == wallet_db'.monitored_utxos[i] IN
                /\ is_synced_to(mutxo, GivenBlock.hash)
                /\ mutxo.spent_in_block = None =>
                      msa_verify(GivenBlock.next_mutator_set_accumulator, mutxo.utxo,
                                 get_membership_proof_for_block(mutxo, GivenBlock.hash))
      ]_vars

C13_Witness ==
    /\ AppliedRecords
    /\ \E i, j \in DOMAIN wallet_db.monitored_utxos :
          /\ is_synced_to(wallet_db.monitored_utxos[i], LastBlock.prev_block_digest)
          /\ is_synced_to(wallet_db.monitored_utxos[i], LastBlock.hash)
          /\ wallet_db.monitored_utxos[i].spent_in_block = None
          /\ wallet_db.monitored_utxos[j].confirmed_in_block = LastBlock.hash
          /\ is_synced_to(wallet_db.monitored_utxos[j], LastBlock.hash)
          /\ Len(LastBlock.inputs) > 0

\* the Bloom-filter indices cached in the proofs of a monitored UTXO
CachedIndices(mutxo) == get_latest_membership_proof_entry(mutxo).mp.cached_indices

\* the indices of the removal records of the block's inputs that are the wallet's
OwnRemovals(block) ==
    {block.inputs[k].removal_record.absolute_indices :
        k \in {n \in DOMAIN block.inputs : matches_pubkey(block.inputs[n].utxo)}}

\* the monitored UTXOs marked as spent in the block
MarkedIn(mutxos, block) ==
    {i \in DOMAIN mutxos : mutxos[i].spent_in_block = block.hash}

\* what a step that gives a block to the wallet does to spent_in_block
MarksExactly ==
    LET after == wallet_db'.monitored_utxos
        before == wallet_db.monitored_utxos
        marked == MarkedIn(after, GivenBlock)
    IN  /\ \A r \in OwnRemovals(GivenBlock) :
              Cardinality({i \in marked : CachedIndices(after[i]) = r}) = 1
        /\ \A i \in marked : CachedIndices(after[i]) \in OwnRemovals(GivenBlock)
        /\ \A i \in DOMAIN after \ marked :
              after[i].spent_in_block =
                 IF i \in DOMAIN before THEN before[i].spent_in_block ELSE None

(* C14: when the wallet applies a block, for each input of the block that
   is the wallet's exactly one monitored UTXO gets spent_in_block set to the
   block, one whose cached indices are the removal record's, also when
   several monitored UTXOs have the same item digest; no other monitored
   UTXO gets the block as spent_in_block and the spent_in_block of all
   others stays as it was. *)
C14_SpentMarksTheInput == [][ReturnsOk => MarksExactly]_vars

C14_Witness ==
    /\ AppliedRecords
    /\ OwnRemovals(LastBlock) # {}
    /\ \E i, j \in DOMAIN wallet_db.monitored_utxos :
          /\ i # j
          /\ wallet_db.monitored_utxos[i].utxo = wallet_db.monitored_utxos[j].utxo
          /\ wallet_db.monitored_utxos[i].spent_in_block = LastBlock.hash
          /\ wallet_db.monitored_utxos[j].spent_in_block = None
          /\ wallet_db.monitored_utxos[j].confirmed_in_block # LastBlock.hash

\* the monitored UTXOs that are unspent and hold a proof for the block
SyncedUnspent(db, digest) ==
    {i \in DOMAIN db.monitored_utxos :
        /\ db.monitored_utxos[i].spent_in_block = None
        /\ is_synced_to(db.monitored_utxos[i], digest)}

RECURSIVE AmountOf(_, _)
AmountOf(db, indices) ==
    IF indices = {} THEN 0
    ELSE LET i == CHOOSE x \in indices : TRUE
         IN  db.monitored_utxos[i].utxo.amount + AmountOf(db, indices \ {i})

Allocated == allocation.result \in {"ok", "err"}

InsufficientIffShort ==
    Allocated =>
        (allocation.result = "err"
            <=> AmountOf(wallet_db, SyncedUnspent(wallet_db, allocation.block))
                    < allocation.requested_amount)

(* C15: allocate_sufficient_input_funds fails exactly when the unspent monitored
   UTXOs that hold a proof for the tip sum to less than the requested amount,
   whatever the spent and the unsynced ones hold, and a failure leaves the
   wallet database as it was. *)
C15_InsufficientFunds ==
    /\ []InsufficientIffShort
    /\ [][allocation'.result = "err"
            => wallet_db' = wallet_db /\ persisted' = persisted]_vars

\* a request fails although the spent and the unsynced UTXOs would cover it
C15_Witness ==
    /\ allocation.result = "err"
    /\ AmountOf(wallet_db, DOMAIN wallet_db.monitored_utxos)
            >= allocation.requested_amount
    /\ \E i, j \in DOMAIN wallet_db.monitored_utxos :
          /\ wallet_db.monitored_utxos[i].spent_in_block # None
          /\ is_synced_to(wallet_db.monitored_utxos[i], allocation.block)
          /\ wallet_db.monitored_utxos[j].spent_in_block = None
          /\ ~is_synced_to(wallet_db.monitored_utxos[j], allocation.block)

AmountOfFirst(n) ==
    SumAmounts([k \in 1..n |-> allocation.ret[k].utxo])

(* C16: a successful allocation returns the shortest prefix, in insertion
   order, of the synced unspent UTXOs whose amounts reach the request, each
   with its proof for the tip: nothing for the amount zero, never a spent or
   an unsynced UTXO. *)
C16_ShortestPrefix ==
    allocation.result = "ok" =>
        LET prefix == SortedSeq(SyncedUnspent(wallet_db, allocation.block))
            n == Len(allocation.ret)
        IN  /\ n <= Len(prefix)
            /\ \A k \in 1..n :
                  LET mutxo == wallet_db.monitored_utxos[prefix[k]] IN
                  /\ allocation.ret[k].utxo = mutxo.utxo
                  /\ allocation.ret[k].mp
                        = get_membership_proof_for_block(mutxo, allocation.block)
            /\ AmountOfFirst(n) >= allocation.requested_amount
            /\ n > 0 => AmountOfFirst(n - 1) < allocation.requested_amount
            /\ allocation.requested_amount = 0 => allocation.ret = <<>>

\* a proper prefix is returned, past a UTXO that is spent or unsynced, and it
\* holds more than was requested
C16_Witness ==
    /\ allocation.result = "ok"
    /\ Len(allocation.ret) > 1
    /\ Len(allocation.ret) < Cardinality(SyncedUnspent(wallet_db, allocation.block))
    /\ AmountOfFirst(Len(allocation.ret)) > allocation.requested_amount

\* amount zero
C16_WitnessZero ==
    /\ allocation.result = "ok"
    /\ allocation.requested_amount = 0
    /\ SyncedUnspent(wallet_db, allocation.block) # {}
OutputsIssued == {k \in DOMAIN issued : issued[k].kind = "output"}

(* C17: each fetch increments the output counter by exactly one, so that the
   k-th fetch of a wallet returns k-1 and no value is returned twice, also
   when the wallet database is restarted from its persisted state. *)
C17_CounterNeverRepeats ==
    \A i, j \in OutputsIssued : i # j => issued[i].counter # issued[j].counter

\* until the database is restarted the k-th fetch returns k-1
C17_FetchCountsUp ==
    [][\A k \in DOMAIN issued' \ DOMAIN issued :
          /\ issued'[k].kind = "output"
                => /\ issued'[k].counter = wallet_db.counter
                   /\ wallet_db'.counter = wallet_db.counter + 1]_vars

(* C18: no two outputs the wallet commits to share their sender randomness,
   the coinbase outputs of two block templates included. *)
C18_NoSharedRandomness ==
    \A i, j \in DOMAIN issued : i # j => issued[i].randomness # issued[j].randomness

\* the randomness is injective in the counter
C18_InjectiveInCounter ==
    \A i, j \in OutputsIssued :
        issued[i].counter # issued[j].counter
            => issued[i].randomness # issued[j].randomness
Verifies(i) == msa_verify(mset.accumulator, mset.items[i], mset.membership_proofs[i])

(* C19: whatever the order of the additions and removals, with every proof
   updated at each step, the proof of an item verifies exactly when the item
   has been added and not yet removed; a proof made for an item that has not
   been added does not verify. *)
C19_VerifyIffInSet ==
    /\ \A i \in DOMAIN mset.items : Verifies(i) <=> i \notin mset.removed
    /\ \A utxo \in Utxos, sender_randomness \in MsRandomness :
          ~msa_verify(mset.accumulator, utxo,
                      msa_prove(mset.accumulator, utxo, sender_randomness))

\* an item is removed between two items that are in the set
C19_Witness ==
    \E i, j, k \in DOMAIN mset.items :
        /\ i < j /\ j < k
        /\ j \in mset.removed
        /\ i \notin mset.removed /\ k \notin mset.removed
        /\ mset.items[i] = mset.items[j]
        /\ Verifies(i) /\ Verifies(k) /\ ~Verifies(j)

RECURSIVE RemoveOneByOne(_, _)
RemoveOneByOne(msa, removal_records) ==
    IF removal_records = <<>> THEN msa
    ELSE RemoveOneByOne(msa_remove(msa, Head(removal_records)), Tail(removal_records))

(* C20: after one batch_remove the proofs of the removed items fail, the other
   proofs verify, and the accumulator has the hash it has after removing the
   records one by one. *)
C20_BatchRemoveAsOneByOne ==
    mset.batch # NoBatch =>
        /\ \A i \in mset.batch.dropped : ~Verifies(i)
        /\ \A i \in DOMAIN mset.items \ mset.removed : Verifies(i)
        /\ msa_hash(mset.accumulator)
              = msa_hash(RemoveOneByOne(mset.batch.accumulator,
                                        mset.batch.removal_records))

\* two items are removed in one batch and another item is preserved
C20_Witness ==
    /\ mset.batch # NoBatch
    /\ Cardinality(mset.batch.dropped) > 1
    /\ \E i \in DOMAIN mset.items \ mset.removed : Verifies(i)
(* C21: after any sequence of additions and removals the proofs updated with
   the batch operations equal the proofs updated one by one with
   update_from_addition and update_from_remove. *)
C21_BatchEqualsSequential ==
    mset.membership_proofs = mset.membership_proofs_sequential

\* several proofs have been through additions and removals
C21_Witness ==
    /\ Len(mset.membership_proofs) = MaxMsItems
    /\ mset.removed # {}
    /\ \A k \in DOMAIN mset.membership_proofs :
          mset.membership_proofs_sequential[k].aocl_len = MaxMsItems
\* mine() builds a template on latest_block and spawns the worker on it
BuildsTemplate == pc = "build" /\ pc' = "select"

(* C22: the block assembled from the template, with its nonce still zero, is
   valid with respect to the parent it was built on. *)
C22_TemplateIsValid ==
    [][BuildsTemplate => is_valid(worker'.header, latest_block)]_vars

(* C23: every template has proof_of_work_line equal to the parent's
   proof_of_work_line plus the parent's difficulty, also when the parent's
   proof_of_work_family differs from its proof_of_work_line. *)
C23_PowLineExtendsParent ==
    [][BuildsTemplate =>
          worker'.header.proof_of_work_line
              = latest_block.proof_of_work_line + latest_block.difficulty]_vars

\* on a parent without uncles the line is the parent's line plus difficulty
C23_PowLineWithoutUncles ==
    [][BuildsTemplate
          /\ latest_block.proof_of_work_family = latest_block.proof_of_work_line
          => worker'.header.proof_of_work_line
                = latest_block.proof_of_work_line + latest_block.difficulty]_vars

(* C24: every block the worker sends satisfies proof of work against its own
   header: its digest is at most the threshold of the header's difficulty. *)
C24_SentBlockHasPow ==
    worker.status = "sent"
        => worker.header.digest
              <= difficulty_to_digest_threshold(worker.header.difficulty)

\* the worker takes a step of mine_block
WorkerSteps ==
    /\ worker.status = "running"
    /\ worker' # worker
    /\ worker' \in mine_block(worker, TRUE)

(* C25: the nonce search stops as soon as the digest is less than or equal to
   the threshold: a header whose digest equals the threshold ends the search
   and its block is sent. *)
C25_SearchStopsAtThreshold ==
    [][WorkerSteps /\ worker.wpc = "loop"
          /\ worker.header.digest <= difficulty_to_digest_threshold(worker.difficulty)
          => worker'.wpc = "send"]_vars

\* a digest below the threshold ends the search
C25_SearchStopsBelowThreshold ==
    [][WorkerSteps /\ worker.wpc = "loop"
          /\ worker.header.digest < difficulty_to_digest_threshold(worker.difficulty)
          => worker'.wpc = "send"]_vars
(* C26: is_valid accepts a block only if it extends its parent: its
   prev_block_digest is the parent's digest and its height is the parent's
   height plus one. *)
C26_ValidExtendsParent ==
    call.op = "is_valid" /\ call.result
        => /\ call.block.header.prev_block_digest = call.parent.hash
           /\ call.block.header.height = call.parent.header.height + 1

\* is_valid accepts no block whose hash is above the threshold
C26_ValidMeetsThreshold ==
    call.op = "is_valid" /\ call.result
        => OrderedDigest(call.block.hash) <= MOCK_BLOCK_THRESHOLD

(* C27: every Block made by Block::new, Block::genesis_block or from a
   TransferBlock has the hash of its header as its hash, and a Block turned
   into a TransferBlock and back is equal to the Block. *)
C27_HashIsSealed ==
    /\ HoldsBlock => call.block.hash = header_hash(call.block.header)
    /\ call.op = "round_trip" => call.block = call.original

\* a block that is not the genesis block went through the wire form
C27_Witness ==
    /\ call.op = "round_trip"
    /\ call.original.header.height > 0
    /\ call.original.body # <<>>
    /\ call.block.hash = header_hash(call.original.header)
(* C28: for every transaction kernel k, decode(encode(k)) is k and has the
   mast_hash of k. *)
C28_KernelRoundTrip ==
    call.op = "decode"
        => /\ call.decoded.ok
           /\ call.decoded.value = call.kernel
           /\ mast_hash(call.decoded.value) = mast_hash(call.kernel)

\* a kernel with a coinbase of zero, an input, an output and an announcement
C28_Witness ==
    /\ call.op = "decode"
    /\ call.decoded.ok
    /\ call.kernel.coinbase = <<0>>
    /\ call.kernel.inputs # <<>>
    /\ call.kernel.outputs # <<>>
    /\ call.kernel.pubscript_hashes_and_inputs # <<>>
    /\ call.decoded.value.coinbase = <<0>>

\* the seven field leaves, in the order the claim gives
FieldLeaves(kernel) ==
    <<hash_varlen(encode_vec(kernel.inputs)),
      hash_varlen(encode_vec(kernel.outputs)),
      hash_varlen(encode_pubscripts(kernel.pubscript_hashes_and_inputs)),
      hash_varlen(<<kernel.fee>>),
      hash_varlen(encode_option(kernel.coinbase)),
      hash_varlen(<<kernel.timestamp>>),
      hash_varlen(<<kernel.mutator_set_hash>>)>>

(* C29: the kernel's mast_hash is the root of the Merkle tree over eight
   leaves: the hashes of the encodings of inputs, outputs, announcements, fee,
   coinbase, timestamp and mutator_set_hash at positions 0 to 6, and the
   all-zero digest itself at position 7. *)
C29_MastHashLeaves ==
    call.op = "mast_hash"
        => call.digest = MerkleRoot(Append(FieldLeaves(call.kernel), Digest_default))

\* the padding leaf is the hash of the encoding of the all-zero digest
C29_MastHashPaddingHashed ==
    call.op = "mast_hash"
        => call.digest
              = MerkleRoot(Append(FieldLeaves(call.kernel), hash_varlen(Digest_default)))

\* the inputs, and the outputs, of the transactions of a list, in its order
RECURSIVE InputsOf(_)
InputsOf(transactions) ==
    IF transactions = <<>> THEN <<>>
    ELSE InputsOf(SubSeq(transactions, 1, Len(transactions) - 1))
             \o transactions[Len(transactions)].inputs

RECURSIVE OutputsOf(_)
OutputsOf(transactions) ==
    IF transactions = <<>> THEN <<>>
    ELSE OutputsOf(SubSeq(transactions, 1, Len(transactions) - 1))
             \o transactions[Len(transactions)].outputs

RECURSIVE FeesOf(_)
FeesOf(transactions) ==
    IF transactions = <<>> THEN 0
    ELSE FeesOf(SubSeq(transactions, 1, Len(transactions) - 1))
             + transactions[Len(transactions)].fee

(* C30: the block transaction create_block_transaction builds on a block of
   height h from the selected mempool transactions has the coinbase amount
   reward(h + 1) plus the sum of their fees, its outputs are the coinbase
   output for that amount followed by all their outputs, and its inputs are
   all their inputs; with an empty mempool it has one output and no input. *)
C30_BlockTransactionMerged ==
    call.op = "create_block_transaction" =>
        LET amount == get_mining_reward(call.height + 1) + FeesOf(call.mempool)
        IN  /\ call.transaction.coinbase = <<amount>>
            /\ call.transaction.outputs
                 = <<coinbase_addition_record(amount, call.height + 1)>>
                       \o OutputsOf(call.mempool)
            /\ call.transaction.inputs = InputsOf(call.mempool)
            /\ call.mempool = <<>> =>
                   /\ Len(call.transaction.outputs) = 1
                   /\ call.transaction.inputs = <<>>

\* the block transaction built from a mempool of one transaction with one
\* input, two outputs and a fee: three outputs and one input
C30_Witness ==
    /\ call.op = "create_block_transaction"
    /\ Len(call.mempool) = 1
    /\ call.mempool[1].fee = 1
    /\ Len(call.mempool[1].inputs) = 1
    /\ Len(call.mempool[1].outputs) = 2
    /\ Len(call.transaction.outputs) = 3
    /\ Len(call.transaction.inputs) = 1
    /\ call.transaction.coinbase = <<get_mining_reward(call.height + 1) + 1>>

\* the block transaction built from an empty mempool
C30_WitnessEmptyMempool ==
    /\ call.op = "create_block_transaction"
    /\ call.mempool = <<>>
    /\ Len(call.transaction.outputs) = 1
    /\ call.transaction.inputs = <<>>

\* the blocks update_latest_block has stored
StoredBlocks == {e[2] : e \in state.databases.block_hash_to_block}

(* C31: the index from block height to block digest holds the digest of every
   block that update_latest_block has stored: after two different blocks of
   one height were stored, both digests are found under that height. *)
C31_HeightIndexKeepsAll ==
    \A block \in StoredBlocks :
        block.hash \in kv_get(state.databases.block_height_to_hash, block.height)

\* the index holds one digest for a height, that of the block stored last
C31_HeightIndexHoldsLast ==
    /\ \A block \in StoredBlocks :
          Cardinality(kv_get(state.databases.block_height_to_hash, block.height)) = 1
    /\ state.databases.latest_block_header # <<>> =>
          kv_get(state.databases.block_height_to_hash,
                 state.databases.latest_block_header[1].height)
              = {state.databases.latest_block_header[1].hash}

\* the task waits for a lock, and the task can take its next step
WaitsFor(t, lock) ==
    /\ state.tasks[t].locks # <<>>
    /\ Head(state.tasks[t].locks) = lock

CanStep(t) ==
    \/ state.tasks[t].op # "none" /\ state.tasks[t].locks = <<>>
    \/ WaitsFor(t, "databases") /\ state.databases_lock = 0
    \/ WaitsFor(t, "latest_block_header") /\ state.latest_block_header_lock = 0

(* C32: a task that holds the mutex of the latest block header took the lock
   of the databases before and still holds it, no task waits for the lock of
   the databases while it holds the header mutex, and the calls of
   update_latest_block, get_latest_block and get_block never deadlock: while
   a call is under way, some task in a call can take its next step. *)
C32_LockOrderNoDeadlock ==
    /\ \A t \in DOMAIN state.tasks :
          /\ state.latest_block_header_lock = t => state.databases_lock = t
          /\ ~(state.latest_block_header_lock = t /\ WaitsFor(t, "databases"))
    /\ (\E t \in DOMAIN state.tasks : state.tasks[t].op # "none")
          => \E t \in DOMAIN state.tasks : CanStep(t)

\* update_latest_block holds both locks while another task waits for the
\* databases
C32_Witness ==
    \E t, u \in DOMAIN state.tasks :
        /\ t # u
        /\ state.tasks[t].op = "update_latest_block"
        /\ state.databases_lock = t
        /\ state.latest_block_header_lock = t
        /\ state.tasks[u].op # "none"
        /\ WaitsFor(u, "databases")

(* C39: all clones of State share the state; for the syncing flag: whatever
   is written through one handle is read through every other, and the clone
   of a State whose flag is true has a flag that is true. *)
C39_ClonesShareSyncing ==
    \A h1, h2 \in DOMAIN state.handles :
        state.syncing[state.handles[h1]] = state.syncing[state.handles[h2]]

\* the notices of a sequence that goes through, in order, and the notice a
\* sequence ends with when the step before its j-th notice failed
NoticeOrder ==
    <<"Validating input ...",
      "Validated address; validating amount ...",
      "Validated amount; checking against balance ...",
      "Validated inputs; sending ...",
      "Payment broadcast!",
      "">>

FailureNotice(j) ==
    CASE j = 2 -> {"Invalid address."}
      [] j = 3 -> {"Invalid amount."}
      [] j = 4 -> {"Insufficient balance."}
      [] j = 5 -> {"Could not send due to error."}
      [] OTHER -> {}

LastNotice(sequence) ==
    IF sequence.notices = <<>> THEN "" ELSE sequence.notices[Len(sequence.notices)]

Sequences == {send_screen.sequences[i] : i \in DOMAIN send_screen.sequences}

(* C33: the notices of a send sequence follow the fixed order (validating
   input, validated address, validated amount, validated inputs, payment
   broadcast), each shown after the step before it succeeded, with at most a
   failure notice of the step that failed at the end; and the send RPC is
   invoked only for an address the server validated, an amount the server
   validated and after the balance check answered that the amount is within
   the synced balance. *)
C33_StepsInOrder ==
    \A q \in Sequences :
        /\ \A j \in DOMAIN q.notices :
              \/ q.notices[j] = NoticeOrder[j]
              \/ j = Len(q.notices) /\ q.notices[j] \in FailureNotice(j)
        /\ q.send_invoked =>
              /\ validate_address(q.address) # NoValue
              /\ q.valid_address = validate_address(q.address)
              /\ validate_amount(q.amount) # NoValue
              /\ q.valid_amount = validate_amount(q.amount)
              /\ q.enough_balance
              /\ Len(q.notices) >= 4
              /\ SubSeq(q.notices, 1, 4) = SubSeq(NoticeOrder, 1, 4)

\* a sequence went through all steps, and the payment was sent
C33_Witness ==
    \E q \in Sequences :
        /\ q.pc = "returned"
        /\ q.send_invoked
        /\ q.notices = NoticeOrder
        /\ send_screen.sent # <<>>

\* a sequence that has begun and has not ended
InFlow(q) == q.pc \notin {"spawned", "returned", "panicked"}

(* C34: a sequence that ended with a failure notice has not sent, and the
   focus is on the notice only while a sequence is running. *)
C34_NoticeOnlyWhileRunning ==
    /\ \A q \in Sequences :
          LastNotice(q) \in {"Invalid address.", "Invalid amount.",
                             "Insufficient balance."}
              => q.pc = "returned" /\ ~q.send_invoked
    /\ send_screen.focus = "Notice" => \E q \in Sequences : InFlow(q)

\* the step in which a sequence fails puts the focus on the offending field
C34_FailureReturnsFocus ==
    [][\A i \in DOMAIN send_screen.sequences :
          /\ InFlow(send_screen.sequences[i])
          /\ send_screen'.sequences[i].pc = "returned"
          => LET notice == LastNotice(send_screen'.sequences[i]) IN
             /\ notice = "Invalid address." => send_screen'.focus = "Address"
             /\ notice \in {"Invalid amount.", "Insufficient balance."}
                   => send_screen'.focus = "Amount"
             /\ notice \in {"Invalid address.", "Invalid amount.",
                            "Insufficient balance."}
                   => ~send_screen'.sequences[i].send_invoked]_vars

(* C35: a sequence one of whose RPCs returned an error (the send RPC after
   its deadline among them) has ended with an error notice, and the focus is
   not left on the notice by it. *)
C35_RpcErrorSurfaced ==
    \A q \in Sequences :
        q.pc = "panicked" =>
            /\ LastNotice(q) \in {"Invalid address.", "Invalid amount.",
                                  "Insufficient balance.",
                                  "Could not send due to error."}
            /\ send_screen.focus = "Notice" => \E r \in Sequences : InFlow(r)

RECURSIVE SumOf(_)
SumOf(amounts) == IF amounts = <<>> THEN 0 ELSE Head(amounts) + SumOf(Tail(amounts))

\* the wallet changes by the payments that were broadcast and by nothing else
C35_WalletUnchangedOnError ==
    /\ send_screen.balance + SumOf(send_screen.sent) = SyncedBalance
    /\ Len(send_screen.sent)
         = Cardinality({i \in DOMAIN send_screen.sequences :
                           \E j \in DOMAIN send_screen.sequences[i].notices :
                              send_screen.sequences[i].notices[j] = "Payment broadcast!"})

(* C38: at most one send sequence is in flight: of the sequences spawned,
   at most one has not ended. *)
C38_OneSequenceInFlight ==
    Cardinality({i \in DOMAIN send_screen.sequences :
                    Running(send_screen.sequences[i])}) <= 1

\* a sequence is spawned only while the focus is on the Send button
C38_SpawnOnlyFromOk ==
    [][Len(send_screen'.sequences) > Len(send_screen.sequences)
          => send_screen.focus = "Ok" /\ send_screen.in_focus]_vars

(* C36: every template has a timestamp strictly greater than the timestamp of
   the block it is built on, whatever the clock reads. *)
C36_TimestampAfterParent ==
    [][BuildsTemplate => worker'.header.timestamp > latest_block.timestamp]_vars

\* the template's timestamp is not before its parent's
C36_TimestampNotBeforeParent ==
    [][BuildsTemplate => worker'.header.timestamp >= latest_block.timestamp]_vars

(* C37: in every wallet state the pair of UTXO digest and AOCL leaf index is
   unique among the monitored UTXOs that hold a membership proof for the same
   block, so that the assertion on the strong key cannot fail on the next
   block. *)
C37_StrongKeyUnique ==
    \A digest \in BlockNames \cup {"G"} :
        ~StrongKeyClash(wallet_db.monitored_utxos, digest)

\* the assertion on the strong key does not fail in a call
C37_StrongKeyAssertionHolds ==
    applied # <<>> /\ wallet_result = "panicked" =>
        ~StrongKeyClash(wallet_db.monitored_utxos,
                        blocks[applied[Len(applied)]].prev_block_digest)

\* a call of update_wallet_state_with_new_block returns an error
ReturnsErr == applied' # applied /\ wallet_result' = "err"

(* C40: when update_wallet_state_with_new_block returns an error, the wallet
   database is as it was before the call: no monitored UTXO and no balance
   update was added, no spent_in_block was set, sync_label is unchanged. *)
C40_ErrorLeavesWalletUnchanged ==
    [][ReturnsErr => wallet_db' = wallet_db]_vars

\* a call that returns an error leaves sync_label and what is persisted
C40_ErrorLeavesSyncLabel ==
    [][ReturnsErr => /\ wallet_db'.sync_label = wallet_db.sync_label
                     /\ persisted' = persisted]_vars


====
